---- MODULE Spec2Model ----
(***************************************************************************)
(* LLM orchestration layer: token tracker, cooldown manager, model router  *)
(* and the /generate request handler.                                       *)
(*                                                                          *)
(* Time is counted in ticks of 1/TicksPerSecond second, so that the         *)
(* float clock of time.time() can sit strictly between two whole seconds.   *)
(* Durations and windows are whole seconds, as in the source.               *)
(* A Python dict is a function whose DOMAIN is the set of keys present.     *)
(* An optional argument is <<>> (None) or <<v>>.                            *)
(***************************************************************************)
EXTENDS Integers, Sequences, FiniteSets, TLC

VARIABLES
    now,             \* time.time(), in ticks
    usage,           \* TokenTracker._usage: key -> list of <<timestamp, tokens>>
    total_usage,     \* TokenTracker._total_usage: key -> int
    cooldowns,       \* CooldownManager._cooldowns: model -> expiry (ticks)
    cooldown_count,  \* CooldownManager._cooldown_count: model -> int
    log,             \* history: key -> every sample recorded since its last reset
    triggered,       \* history: model -> the latest trigger_cooldown call on it
                     \* since the last POST /reset
    advances,        \* history: how many times the clock has been advanced
    req,             \* the /generate requests: request -> the handler's locals
    locks,           \* the two threading.Lock objects: lock -> its holder, if any
    threads          \* the threads calling the tracking package: thread -> its call

vars == <<now, usage, total_usage, cooldowns, cooldown_count,
          log, triggered, advances, req, locks, threads>>

trackerVars == <<usage, total_usage, log>>

cooldownVars == <<cooldowns, cooldown_count, triggered>>

lockVars == <<locks, threads>>

---------------------------------------------------------------------------
(* Bounds of the exploration *)

TicksPerSecond == 2
MaxRecords == 2
MaxTriggers == 2
MaxAdvances == 2
MaxElapses == 1

---------------------------------------------------------------------------
(* src/config.py *)

TOKEN_COOLDOWN_THRESHOLD == 5000
COOLDOWN_DURATION_SECONDS == 300
REQUEST_TIMEOUT_SECONDS == 30

Models == {"gpt-4", "gpt-3.5-turbo", "claude-sonnet-4", "claude-haiku-4"}

\* cost_per_1k is kept in units of 1/10000 dollar (0.03 -> 300, 0.0008 -> 8).
MODEL_CONFIG ==
    [m \in Models |->
        CASE m = "gpt-4" ->
               [provider |-> "openai", cost_per_1k |-> 300,
                speed |-> "slow", quality |-> "high"]
          [] m = "gpt-3.5-turbo" ->
               [provider |-> "openai", cost_per_1k |-> 10,
                speed |-> "fast", quality |-> "medium"]
          [] m = "claude-sonnet-4" ->
               [provider |-> "anthropic", cost_per_1k |-> 150,
                speed |-> "medium", quality |-> "high"]
          [] m = "claude-haiku-4" ->
               [provider |-> "anthropic", cost_per_1k |-> 8,
                speed |-> "very_fast", quality |-> "medium"]]

ConfiguredIntents ==
    {"code_generation", "education", "writing", "translation",
     "summarization", "general"}

INTENT_ROUTING ==
    [i \in ConfiguredIntents |->
        CASE i = "code_generation" -> <<"gpt-4", "gpt-3.5-turbo">>
          [] i = "education" -> <<"gpt-4", "claude-sonnet-4", "gpt-3.5-turbo">>
          [] i = "writing" -> <<"claude-sonnet-4", "gpt-4", "gpt-3.5-turbo">>
          [] i = "translation" -> <<"gpt-3.5-turbo", "claude-haiku-4">>
          [] i = "summarization" -> <<"claude-haiku-4", "gpt-3.5-turbo">>
          [] i = "general" -> <<"gpt-3.5-turbo", "claude-haiku-4">>]

---------------------------------------------------------------------------
(* Python dict and list helpers *)

EmptyDict == [k \in {} |-> 0]

DictGet(d, k, default) == IF k \in DOMAIN d THEN d[k] ELSE default

DictSet(d, k, v) == [x \in (DOMAIN d) \cup {k} |-> IF x = k THEN v ELSE d[x]]

DictPop(d, k) == [x \in (DOMAIN d) \ {k} |-> d[x]]

RECURSIVE SumValues(_)
SumValues(d) ==
    IF DOMAIN d = {} THEN 0
    ELSE LET k == CHOOSE x \in DOMAIN d : TRUE
         IN  d[k] + SumValues(DictPop(d, k))

RECURSIVE SumLengths(_)
SumLengths(d) ==
    IF DOMAIN d = {} THEN 0
    ELSE LET k == CHOOSE x \in DOMAIN d : TRUE
         IN  Len(d[k]) + SumLengths(DictPop(d, k))

RECURSIVE SumTokens(_)
SumTokens(samples) ==
    IF samples = <<>> THEN 0
    ELSE Head(samples)[2] + SumTokens(Tail(samples))

Ticks(seconds) == seconds * TicksPerSecond

\* int(x) of a float x = ticks / TicksPerSecond: truncation toward zero.
IntOfTicks(ticks) ==
    IF ticks >= 0 THEN ticks \div TicksPerSecond
    ELSE -((-ticks) \div TicksPerSecond)

Max(a, b) == IF a >= b THEN a ELSE b

Min(a, b) == IF a <= b THEN a ELSE b

\* m in lst, for a list
InList(m, lst) == \E i \in 1..Len(lst) : lst[i] = m

\* lst[:n]
Prefix(lst, n) ==
    IF n >= 0 THEN SubSeq(lst, 1, Min(n, Len(lst)))
    ELSE SubSeq(lst, 1, Max(0, Len(lst) + n))

\* list.sort(key=...): ascending and stable.  Each element is inserted after
\* the elements already placed whose key is not greater than its own.
RECURSIVE InsertByKey_before(_, _, _)
\* Variant: an element is inserted before the elements of equal key.
InsertByKey_before(x, sorted, key) ==
    IF sorted = <<>> THEN <<x>>
    ELSE IF key[Head(sorted)] < key[x]
         THEN <<Head(sorted)>> \o InsertByKey_before(x, Tail(sorted), key)
         ELSE <<x>> \o sorted

RECURSIVE InsertByKey(_, _, _)
InsertByKey(x, sorted, key) ==
    IF sorted = <<>> THEN <<x>>
    ELSE IF key[Head(sorted)] <= key[x]
         THEN <<Head(sorted)>> \o InsertByKey(x, Tail(sorted), key)
         ELSE <<x>> \o sorted

RECURSIVE SortByKey(_, _)
SortByKey(lst, key) ==
    IF lst = <<>> THEN <<>>
    ELSE InsertByKey(lst[Len(lst)], SortByKey(SubSeq(lst, 1, Len(lst) - 1), key), key)

---------------------------------------------------------------------------
(* The history variable log: what was recorded, kept apart from what the    *)
(* tracker stores.  A sample recorded with a provider is logged under the   *)
(* model and under "provider:<provider>"; a reset forgets the key (or all). *)

LogSample(l, key, t, tokens) ==
    [k \in (DOMAIN l) \cup {key} |->
        IF k = key
        THEN (IF key \in DOMAIN l THEN l[key] ELSE <<>>) \o << <<t, tokens>> >>
        ELSE l[k]]

Logged(l, model, tokens, provider, t) ==
    IF provider = <<>> THEN LogSample(l, model, t, tokens)
    ELSE LogSample(LogSample(l, model, t, tokens),
                   "provider:" \o provider[1], t, tokens)

Forgotten(l, model) ==
    IF model = <<>> THEN [k \in {} |-> <<>>]
    ELSE [k \in (DOMAIN l) \ {model[1]} |-> l[k]]

---------------------------------------------------------------------------
(* src/tracking/usage.py: TokenTracker.  Each method is an operator from    *)
(* the tracker's fields and the clock reading t to the fields afterwards    *)
(* (and the value returned, ret).                                           *)

provider_key(provider) == "provider:" \o provider

\* Variant: the total is overwritten, not added to.
record_usage_overwrite(u, tot, model, tokens, provider, t) ==
    LET u1 == DictSet(u, model, Append(DictGet(u, model, <<>>), <<t, tokens>>))
        t1 == DictSet(tot, model, tokens)
    IN  IF provider # <<>> /\ provider[1] # ""
        THEN LET pk == provider_key(provider[1])
             IN  [usage |-> DictSet(u1, pk,
                                Append(DictGet(u1, pk, <<>>), <<t, tokens>>)),
                  total_usage |-> DictSet(t1, pk, tokens)]
        ELSE [usage |-> u1, total_usage |-> t1]

\* Variant: nothing is kept under the provider key.
record_usage_model_only(u, tot, model, tokens, provider, t) ==
    [usage |-> DictSet(u, model, Append(DictGet(u, model, <<>>), <<t, tokens>>)),
     total_usage |-> DictSet(tot, model, DictGet(tot, model, 0) + tokens)]

record_usage(u, tot, model, tokens, provider, t) ==
    LET u1 == DictSet(u, model, Append(DictGet(u, model, <<>>), <<t, tokens>>))
        t1 == DictSet(tot, model, DictGet(tot, model, 0) + tokens)
    IN  IF provider # <<>> /\ provider[1] # ""
        THEN LET pk == provider_key(provider[1])
             IN  [usage |-> DictSet(u1, pk,
                                Append(DictGet(u1, pk, <<>>), <<t, tokens>>)),
                  total_usage |-> DictSet(t1, pk, DictGet(t1, pk, 0) + tokens)]
        ELSE [usage |-> u1, total_usage |-> t1]

\* Variant: the samples outside the window itself are removed.
get_usage_in_window_tight(u, model, window_seconds, t) ==
    IF model \notin DOMAIN u
    THEN [ret |-> 0, usage |-> u]
    ELSE LET cutoff_time == t - Ticks(window_seconds)
             InWindow(s) == s[1] >= cutoff_time
         IN  [ret |-> SumTokens(SelectSeq(u[model], InWindow)),
              usage |-> [u EXCEPT ![model] = SelectSeq(u[model], InWindow)]]

get_usage_in_window(u, model, window_seconds, t) ==
    IF model \notin DOMAIN u
    THEN [ret |-> 0, usage |-> u]
    ELSE LET cutoff_time == t - Ticks(window_seconds)
             cleanup_cutoff == t - Ticks(window_seconds * 2)
             InWindow(s) == s[1] >= cutoff_time
             Kept(s) == s[1] >= cleanup_cutoff
         IN  [ret |-> SumTokens(SelectSeq(u[model], InWindow)),
              usage |-> [u EXCEPT ![model] = SelectSeq(u[model], Kept)]]

get_total_usage(tot, model) == DictGet(tot, model, 0)

get_all_usage(tot) == tot

get_usage_last_hour(u, model, t) == get_usage_in_window(u, model, 3600, t)

get_usage_last_minute(u, model, t) == get_usage_in_window(u, model, 60, t)

reset_usage(u, tot, model) ==
    IF model # <<>> /\ model[1] # ""
    THEN [usage |-> DictPop(u, model[1]), total_usage |-> DictPop(tot, model[1])]
    ELSE [usage |-> EmptyDict, total_usage |-> EmptyDict]

---------------------------------------------------------------------------
(* src/tracking/cooldown.py: CooldownManager *)

\* Variant: the expiry instant itself still counts as cooling.
is_on_cooldown_late(cd, model, t) ==
    IF model \notin DOMAIN cd
    THEN [ret |-> FALSE, cooldowns |-> cd]
    ELSE IF t > cd[model]
         THEN [ret |-> FALSE, cooldowns |-> DictPop(cd, model)]
         ELSE [ret |-> TRUE, cooldowns |-> cd]

\* Variant: an expired entry is left in the map.
is_on_cooldown_keeping(cd, model, t) ==
    [ret |-> model \in DOMAIN cd /\ t < cd[model], cooldowns |-> cd]

is_on_cooldown(cd, model, t) ==
    IF model \notin DOMAIN cd
    THEN [ret |-> FALSE, cooldowns |-> cd]
    ELSE IF t >= cd[model]
         THEN [ret |-> FALSE, cooldowns |-> DictPop(cd, model)]
         ELSE [ret |-> TRUE, cooldowns |-> cd]

\* duration_seconds or self.duration_seconds: None and 0 are both falsy.
trigger_duration(duration_seconds) ==
    IF duration_seconds = <<>> \/ duration_seconds[1] = 0
    THEN COOLDOWN_DURATION_SECONDS
    ELSE duration_seconds[1]

trigger_cooldown(cd, cnt, model, duration_seconds, t) ==
    [cooldowns |-> DictSet(cd, model, t + Ticks(trigger_duration(duration_seconds))),
     cooldown_count |-> DictSet(cnt, model, DictGet(cnt, model, 0) + 1)]

\* Variant: a check below the threshold removes the model's cooldown.
check_and_trigger_cooldown_clearing(u, cd, cnt, model, window_seconds, t) ==
    LET w == get_usage_in_window(u, model, window_seconds, t)
    IN  IF w.ret >= TOKEN_COOLDOWN_THRESHOLD
        THEN LET g == trigger_cooldown(cd, cnt, model, <<>>, t)
             IN  [ret |-> TRUE, usage |-> w.usage,
                  cooldowns |-> g.cooldowns, cooldown_count |-> g.cooldown_count]
        ELSE [ret |-> FALSE, usage |-> w.usage,
              cooldowns |-> DictPop(cd, model), cooldown_count |-> cnt]

\* Variant: the threshold itself does not trigger.
check_and_trigger_cooldown_strict(u, cd, cnt, model, window_seconds, t) ==
    LET w == get_usage_in_window(u, model, window_seconds, t)
    IN  IF w.ret > TOKEN_COOLDOWN_THRESHOLD
        THEN LET tr == trigger_cooldown(cd, cnt, model, <<>>, t)
             IN  [ret |-> TRUE, usage |-> w.usage,
                  cooldowns |-> tr.cooldowns, cooldown_count |-> tr.cooldown_count]
        ELSE [ret |-> FALSE, usage |-> w.usage,
              cooldowns |-> cd, cooldown_count |-> cnt]

check_and_trigger_cooldown(u, cd, cnt, model, window_seconds, t) ==
    LET w == get_usage_in_window(u, model, window_seconds, t)
    IN  IF w.ret >= TOKEN_COOLDOWN_THRESHOLD
        THEN LET tr == trigger_cooldown(cd, cnt, model, <<>>, t)
             IN  [ret |-> TRUE, usage |-> w.usage,
                  cooldowns |-> tr.cooldowns, cooldown_count |-> tr.cooldown_count]
        ELSE [ret |-> FALSE, usage |-> w.usage,
              cooldowns |-> cd, cooldown_count |-> cnt]

get_remaining_cooldown(cd, model, t) ==
    IF model \notin DOMAIN cd THEN 0
    ELSE Max(0, IntOfTicks(cd[model] - t))

clear_cooldown(cd, model) == DictPop(cd, model)

get_all_cooldowns(cd, t) ==
    LET live == {m \in DOMAIN cd : IntOfTicks(cd[m] - t) > 0}
    IN  [m \in live |-> IntOfTicks(cd[m] - t)]

get_statistics(cnt) == cnt

\* the module's set_cooldown(model, seconds=60)
set_cooldown(cd, cnt, model, seconds, t) ==
    trigger_cooldown(cd, cnt, model, IF seconds = <<>> THEN <<60>> ELSE seconds, t)

---------------------------------------------------------------------------
(* src/router/router.py: ModelRouter.  The router reads the cooldown map    *)
(* through is_on_cooldown, which evicts the expired entries it meets.       *)

candidate_models(intent) ==
    IF intent \in DOMAIN INTENT_ROUTING THEN INTENT_ROUTING[intent]
    ELSE <<"gpt-3.5-turbo">>

\* [m for m in models if not cooldown_manager.is_on_cooldown(m)]
RECURSIVE not_on_cooldown(_, _, _)
not_on_cooldown(cd, models, t) ==
    IF models = <<>> THEN [models |-> <<>>, cooldowns |-> cd]
    ELSE LET c == is_on_cooldown(cd, Head(models), t)
             rest == not_on_cooldown(c.cooldowns, Tail(models), t)
         IN  [models |-> IF c.ret THEN rest.models
                         ELSE <<Head(models)>> \o rest.models,
              cooldowns |-> rest.cooldowns]

speed_order == [very_fast |-> 0, fast |-> 1, medium |-> 2, slow |-> 3]

quality_order == [high |-> 0, medium |-> 1, low |-> 2]

\* Variant: "cost" keeps the configured order.
sort_by_preference_no_cost(available_models, preference) ==
    IF preference = "speed"
    THEN SortByKey(available_models,
                   [m \in Models |-> DictGet(speed_order, MODEL_CONFIG[m].speed, 99)])
    ELSE IF preference = "quality"
    THEN SortByKey(available_models,
                   [m \in Models |-> DictGet(quality_order, MODEL_CONFIG[m].quality, 99)])
    ELSE available_models

sort_by_preference(available_models, preference) ==
    IF preference = "cost"
    THEN SortByKey(available_models,
                   [m \in Models |-> MODEL_CONFIG[m].cost_per_1k])
    ELSE IF preference = "speed"
    THEN SortByKey(available_models,
                   [m \in Models |-> DictGet(speed_order, MODEL_CONFIG[m].speed, 99)])
    ELSE IF preference = "quality"
    THEN SortByKey(available_models,
                   [m \in Models |-> DictGet(quality_order, MODEL_CONFIG[m].quality, 99)])
    ELSE available_models

\* Variant: the cooldown filter is skipped.
select_model_unfiltered(cd, intent, preference, excluded_models, t) ==
    LET candidates ==
            IF excluded_models # <<>>
            THEN SelectSeq(candidate_models(intent),
                           LAMBDA m : ~InList(m, excluded_models))
            ELSE candidate_models(intent)
    IN  IF candidates = <<>>
        THEN [ret |-> <<>>, cooldowns |-> cd]
        ELSE LET selected_model == sort_by_preference(candidates, preference)[1]
             IN  [ret |-> <<MODEL_CONFIG[selected_model].provider, selected_model>>,
                  cooldowns |-> cd]

\* Variant: a model whose cooldown ends within 5 seconds counts as available.
select_model_ending_soon(cd, intent, preference, excluded_models, t) ==
    LET candidates ==
            IF excluded_models # <<>>
            THEN SelectSeq(candidate_models(intent),
                           LAMBDA m : ~InList(m, excluded_models))
            ELSE candidate_models(intent)
        avail == SelectSeq(candidates,
                           LAMBDA m : m \notin DOMAIN cd \/ cd[m] - t <= Ticks(5))
    IN  IF avail = <<>>
        THEN [ret |-> <<>>, cooldowns |-> cd]
        ELSE LET selected_model == sort_by_preference(avail, preference)[1]
             IN  [ret |-> <<MODEL_CONFIG[selected_model].provider, selected_model>>,
                  cooldowns |-> cd]

select_model(cd, intent, preference, excluded_models, t) ==
    LET candidates ==
            IF excluded_models # <<>>
            THEN SelectSeq(candidate_models(intent),
                           LAMBDA m : ~InList(m, excluded_models))
            ELSE candidate_models(intent)
        avail == not_on_cooldown(cd, candidates, t)
    IN  IF avail.models = <<>>
        THEN [ret |-> <<>>, cooldowns |-> avail.cooldowns]
        ELSE LET selected_model == sort_by_preference(avail.models, preference)[1]
             IN  [ret |-> <<MODEL_CONFIG[selected_model].provider, selected_model>>,
                  cooldowns |-> avail.cooldowns]

\* Variant: the chain is cut one element too late.
get_fallback_chain_long(cd, intent, failed_model, max_fallbacks, t) ==
    LET fallback_models ==
            SelectSeq(candidate_models(intent), LAMBDA m : m # failed_model)
        avail == not_on_cooldown(cd, fallback_models, t)
        limited == Prefix(avail.models, max_fallbacks + 1)
    IN  [ret |-> [i \in 1..Len(limited) |->
                     <<MODEL_CONFIG[limited[i]].provider, limited[i]>>],
         cooldowns |-> avail.cooldowns]

\* Variant: the failed model is left among the fallbacks.
get_fallback_chain_keeping_failed(cd, intent, failed_model, max_fallbacks, t) ==
    LET avail == not_on_cooldown(cd, candidate_models(intent), t)
        limited == Prefix(avail.models, max_fallbacks)
    IN  [ret |-> [i \in 1..Len(limited) |->
                     <<MODEL_CONFIG[limited[i]].provider, limited[i]>>],
         cooldowns |-> avail.cooldowns]

\* Variant: the fallbacks are ordered by speed before the chain is cut.
get_fallback_chain_by_speed(cd, intent, failed_model, max_fallbacks, t) ==
    LET fallback_models ==
            SelectSeq(candidate_models(intent), LAMBDA m : m # failed_model)
        avail == not_on_cooldown(cd, fallback_models, t)
        limited == Prefix(sort_by_preference(avail.models, "speed"), max_fallbacks)
    IN  [ret |-> [i \in 1..Len(limited) |->
                     <<MODEL_CONFIG[limited[i]].provider, limited[i]>>],
         cooldowns |-> avail.cooldowns]

get_fallback_chain(cd, intent, failed_model, max_fallbacks, t) ==
    LET fallback_models ==
            SelectSeq(candidate_models(intent), LAMBDA m : m # failed_model)
        avail == not_on_cooldown(cd, fallback_models, t)
        limited == Prefix(avail.models, max_fallbacks)
    IN  [ret |-> [i \in 1..Len(limited) |->
                     <<MODEL_CONFIG[limited[i]].provider, limited[i]>>],
         cooldowns |-> avail.cooldowns]

is_model_available(cd, model, t) ==
    LET c == is_on_cooldown(cd, model, t)
    IN  [ret |-> ~c.ret, cooldowns |-> c.cooldowns]

---------------------------------------------------------------------------
(* src/main.py: the /generate handler.  It is a coroutine on one event      *)
(* loop: it runs without interruption up to the await of provider.generate, *)
(* and again from the call's result to the next await or to its end.        *)

\* The requests, in the order they arrive
RequestOrder == <<"r1", "r2">>

Requests == {RequestOrder[i] : i \in 1..Len(RequestOrder)}

ErrorKinds == {"RateLimitError", "TimeoutError", "ProviderError", "Exception"}

IdleRequest ==
    [pc |-> "idle", intent |-> "", preference |-> "", model_name |-> "",
     all_attempts |-> <<>>, idx |-> 0, tried_models |-> <<>>,
     last_error |-> "None", since |-> 0, response |-> <<>>,
     rate_limited |-> {},  \* history: the models this request was rate
                           \* limited on
     cleared |-> {}]       \* history: those of them /reset has cleared since

\* str(last_error): an exception is named here by its class, and its message
\* is that name followed by the provider's text; None prints as "None".  The
\* messages are shorter than the 100 characters fallback_reason keeps.
str(error) == IF error = "None" THEN "None" ELSE error \o ": provider message"

\* The handler has returned (or raised): its locals are gone, the response
\* stays with the client.
returned(response) == [IdleRequest EXCEPT !.pc = "done", !.response = response]

\* lines 99-107: HTTPException(status_code=503)
no_models_response == [status_code |-> 503]

\* Variant: the threshold is checked before the usage is recorded.
on_success_check_first(u, tot, cd, cnt, attempt_provider, attempt_model, tokens, t) ==
    LET chk == check_and_trigger_cooldown(u, cd, cnt, attempt_model, 3600, t)
        rec == record_usage(chk.usage, tot, attempt_model, tokens, <<attempt_provider>>, t)
    IN  [usage |-> rec.usage, total_usage |-> rec.total_usage,
         cooldowns |-> chk.cooldowns, cooldown_count |-> chk.cooldown_count,
         cooldown_triggered |-> chk.ret]

\* lines 140-151: the usage is recorded, then the threshold is checked
on_success(u, tot, cd, cnt, attempt_provider, attempt_model, tokens, t) ==
    LET rec == record_usage(u, tot, attempt_model, tokens, <<attempt_provider>>, t)
        chk == check_and_trigger_cooldown(rec.usage, cd, cnt, attempt_model, 3600, t)
    IN  [usage |-> chk.usage, total_usage |-> rec.total_usage,
         cooldowns |-> chk.cooldowns, cooldown_count |-> chk.cooldown_count,
         cooldown_triggered |-> chk.ret]

\* lines 156-179: GenerateResponse
success_response(q, attempt_provider, attempt_model, tokens, cooldown_triggered) ==
    [status_code |-> 200,
     model_used |-> attempt_model,
     provider |-> attempt_provider,
     tokens_used |-> tokens,
     intent |-> q.intent,
     tried_models |-> q.tried_models,
     cooldown_triggered |-> cooldown_triggered,
     fallback_used |-> (attempt_model # q.model_name),
     fallback_reason |-> IF attempt_model # q.model_name
                         THEN "Primary model failed: " \o str(q.last_error)
                         ELSE "None"]

\* Variant: the rate limit's cooldown has the default duration.
on_error_default(cd, cnt, error, attempt_model, t) ==
    IF error = "RateLimitError"
    THEN trigger_cooldown(cd, cnt, attempt_model, <<>>, t)
    ELSE [cooldowns |-> cd, cooldown_count |-> cnt]

\* lines 181-201: the except clauses; only a rate limit forces a cooldown
on_error(cd, cnt, error, attempt_model, t) ==
    IF error = "RateLimitError"
    THEN trigger_cooldown(cd, cnt, attempt_model, <<600>>, t)
    ELSE [cooldowns |-> cd, cooldown_count |-> cnt]

\* lines 204-211: HTTPException(status_code=500)
all_failed_response(tried_models, last_error) ==
    [status_code |-> 500, error |-> "All models failed",
     tried_models |-> tried_models, last_error |-> last_error]

\* Variant: the loop passes over a next model that is on cooldown by now.
next_attempt_requery(q, t) ==
    LET skip == /\ q.idx + 1 < Len(q.all_attempts)
                /\ is_on_cooldown(cooldowns, q.all_attempts[q.idx + 1][2], t).ret
        n == IF skip THEN q.idx + 2 ELSE q.idx + 1
    IN  [q EXCEPT !.pc = "awaiting",
                  !.idx = n,
                  !.tried_models = Append(q.tried_models, q.all_attempts[n][2]),
                  !.since = t]

\* lines 123-124: the next turn of the loop over all_attempts, up to the await
next_attempt(q, t) ==
    [q EXCEPT !.pc = "awaiting",
              !.idx = q.idx + 1,
              !.tried_models = Append(q.tried_models, q.all_attempts[q.idx + 1][2]),
              !.since = t]

\* Variant: the error of the final attempt is not kept.
after_error_stale(q, error, t) ==
    IF q.idx < Len(q.all_attempts)
    THEN next_attempt([q EXCEPT !.last_error = error], t)
    ELSE returned(all_failed_response(q.tried_models, str(q.last_error)))

\* Variant: a failed attempt is made again while attempts remain.
after_error_retry(q, error, t) ==
    IF q.idx < Len(q.all_attempts)
    THEN [q EXCEPT !.last_error = error,
                   !.tried_models = Append(@, q.all_attempts[q.idx][2]),
                   !.since = t]
    ELSE returned(all_failed_response(q.tried_models, str(error)))

\* the loop's turn after a failed attempt: the next attempt, or the 500
after_error(q, error, t) ==
    LET attempt_model == q.all_attempts[q.idx][2]
        q1 == [q EXCEPT !.last_error = error,
                        !.rate_limited = IF error = "RateLimitError"
                                         THEN @ \cup {attempt_model} ELSE @,
                        !.cleared = IF error = "RateLimitError"
                                    THEN @ \ {attempt_model} ELSE @]
    IN  IF q.idx < Len(q.all_attempts)
        THEN next_attempt(q1, t)
        ELSE returned(all_failed_response(q1.tried_models, str(q1.last_error)))

\* lines 225-227: model.startswith("provider:")
is_provider_key(key) ==
    key \in {provider_key(MODEL_CONFIG[m].provider) : m \in Models}

RECURSIVE stats_usage(_, _, _)
\* lines 223-235: get_usage_last_hour of every model of all_usage
stats_usage(u, keys, t) ==
    IF keys = {} THEN u
    ELSE LET k == CHOOSE x \in keys : TRUE
         IN  stats_usage(get_usage_last_hour(u, k, t).usage, keys \ {k}, t)

RECURSIVE stats_cooldowns(_, _, _)
\* lines 223-235: is_on_cooldown of every model of all_usage
stats_cooldowns(cd, keys, t) ==
    IF keys = {} THEN cd
    ELSE LET k == CHOOSE x \in keys : TRUE
         IN  stats_cooldowns(is_on_cooldown(cd, k, t).cooldowns, keys \ {k}, t)

\* lines 216-242: GET /stats
get_stats(u, tot, cd, t) ==
    LET all_usage == get_all_usage(tot)
        models == {k \in DOMAIN all_usage : ~is_provider_key(k)}
        u1 == stats_usage(u, models, t)
        cd1 == stats_cooldowns(cd, models, t)
    IN  [ret |-> [total_requests |-> SumValues(all_usage),
                  models |-> [m \in models |->
                      [total_tokens |-> all_usage[m],
                       last_hour_tokens |-> get_usage_last_hour(u, m, t).ret,
                       on_cooldown |-> is_on_cooldown(cd, m, t).ret,
                       cooldown_remaining_seconds |->
                           get_remaining_cooldown(cd1, m, t)]],
                  active_cooldowns |-> get_all_cooldowns(cd1, t)],
         usage |-> u1, cooldowns |-> cd1]

RECURSIVE clear_cooldowns(_, _)
\* lines 258-260: clear_cooldown of every key of _cooldowns
clear_cooldowns(cd, keys) ==
    IF keys = {} THEN cd
    ELSE LET k == CHOOSE x \in keys : TRUE
         IN  clear_cooldowns(clear_cooldown(cd, k), keys \ {k})

\* Variant: only the usage is reset.
reset_system_usage_only(u, tot, cd) ==
    LET r == reset_usage(u, tot, <<>>)
    IN  [usage |-> r.usage, total_usage |-> r.total_usage, cooldowns |-> cd]

\* lines 256-262: POST /reset; the trigger counts are left as they are
reset_system(u, tot, cd) ==
    LET r == reset_usage(u, tot, <<>>)
    IN  [usage |-> r.usage, total_usage |-> r.total_usage,
         cooldowns |-> clear_cooldowns(cd, DOMAIN cd)]

---------------------------------------------------------------------------
(* The calls of the tracking package, made in any order by any caller, with *)
(* the clock advancing between calls.  The methods that only read           *)
(* (get_total_usage, get_all_usage, get_remaining_cooldown,                 *)
(* get_all_cooldowns, get_statistics) change no state: they are the         *)
(* operators above, evaluated on the current state.                         *)

\* The two locks: TokenTracker._lock and CooldownManager._lock
Locks == {"tracker", "cooldown"}

Threads == {"t1", "t2"}

\* A thread that is in no call of the tracking package
IdleThread ==
    [op |-> "idle", pos |-> 0, model |-> "", tokens |-> 0, provider |-> <<>>,
     usage |-> 0,    \* the usage check_and_trigger_cooldown got from the tracker
     read |-> <<>>]  \* the entries the section has read and not yet stored

TrackedModels == {"gpt-4", "test-model"}

\* The models record_usage is called on, and the keys they are stored under.
RecordedModels == {"gpt-4"}

TrackedKeys == TrackedModels \cup {provider_key("openai")}

TokenCounts == {100, 5000}

ProviderArgs == {<<>>, <<"openai">>}

DurationArgs == {<<>>, <<0>>, <<5>>}

WindowArgs == {60, 3600}

\* Clock steps of the tracker's callers, in ticks: one minute, one hour.
TrackerClockSteps == {Ticks(60), Ticks(3600)}

\* Clock steps of the cooldown manager's callers, in ticks: one tick, 5 s less
\* a tick, the default cooldown duration.
CooldownClockSteps == {1, Ticks(5) - 1, Ticks(COOLDOWN_DURATION_SECONDS)}

Init ==
    /\ now = 0
    /\ usage = EmptyDict
    /\ total_usage = EmptyDict
    /\ cooldowns = EmptyDict
    /\ cooldown_count = EmptyDict
    /\ log = EmptyDict
    /\ triggered = EmptyDict
    /\ advances = 0
    /\ req = [r \in Requests |-> IdleRequest]
    /\ locks = [l \in Locks |-> <<>>]
    /\ threads = [t \in Threads |-> IdleThread]

Advance(d) ==
    /\ advances < MaxAdvances
    /\ now' = now + d
    /\ advances' = advances + 1
    /\ UNCHANGED <<trackerVars, cooldownVars, req, lockVars>>

RecordUsage(model, tokens, provider) ==
    /\ SumLengths(log) < MaxRecords
    /\ LET r == record_usage(usage, total_usage, model, tokens, provider, now)
       IN  /\ usage' = r.usage
           /\ total_usage' = r.total_usage
    /\ log' = Logged(log, model, tokens, provider, now)
    /\ UNCHANGED <<now, cooldownVars, advances, req, lockVars>>

GetUsageInWindow(model, window_seconds) ==
    /\ LET r == get_usage_in_window(usage, model, window_seconds, now)
       IN  /\ usage' = r.usage
    /\ UNCHANGED <<now, total_usage, log, cooldownVars, advances, req, lockVars>>

GetUsageLastHour(model) ==
    /\ LET r == get_usage_last_hour(usage, model, now)
       IN  /\ usage' = r.usage
    /\ UNCHANGED <<now, total_usage, log, cooldownVars, advances, req, lockVars>>

GetUsageLastMinute(model) ==
    /\ LET r == get_usage_last_minute(usage, model, now)
       IN  /\ usage' = r.usage
    /\ UNCHANGED <<now, total_usage, log, cooldownVars, advances, req, lockVars>>

ResetUsage(model) ==
    /\ LET r == reset_usage(usage, total_usage, model)
       IN  /\ usage' = r.usage
           /\ total_usage' = r.total_usage
    /\ log' = Forgotten(log, model)
    /\ UNCHANGED <<now, cooldownVars, advances, req, lockVars>>

IsOnCooldown(model) ==
    /\ LET r == is_on_cooldown(cooldowns, model, now)
       IN  /\ cooldowns' = r.cooldowns
    /\ UNCHANGED <<now, trackerVars, cooldown_count, triggered, advances, req, lockVars>>

TriggerCooldown(model, duration_seconds) ==
    /\ SumValues(cooldown_count) < MaxTriggers
    /\ LET r == trigger_cooldown(cooldowns, cooldown_count, model, duration_seconds, now)
       IN  /\ cooldowns' = r.cooldowns
           /\ cooldown_count' = r.cooldown_count
    /\ triggered' = DictSet(triggered, model, [at |-> now, d |-> duration_seconds])
    /\ UNCHANGED <<now, trackerVars, advances, req, lockVars>>

CheckAndTriggerCooldown(model, window_seconds) ==
    /\ SumValues(cooldown_count) < MaxTriggers
    /\ LET r == check_and_trigger_cooldown(usage, cooldowns, cooldown_count,
                                           model, window_seconds, now)
       IN  /\ usage' = r.usage
           /\ cooldowns' = r.cooldowns
           /\ cooldown_count' = r.cooldown_count
           /\ triggered' = IF r.ret
                           THEN DictSet(triggered, model, [at |-> now, d |-> <<>>])
                           ELSE triggered
    /\ UNCHANGED <<now, total_usage, log, advances, req, lockVars>>

ClearCooldown(model) ==
    /\ cooldowns' = clear_cooldown(cooldowns, model)
    /\ UNCHANGED <<now, trackerVars, cooldown_count, triggered, advances, req, lockVars>>

NextTracker ==
    \/ \E d \in TrackerClockSteps : Advance(d)
    \/ \E m \in RecordedModels, n \in TokenCounts, p \in ProviderArgs :
          RecordUsage(m, n, p)
    \/ \E k \in TrackedKeys, w \in WindowArgs : GetUsageInWindow(k, w)
    \/ \E k \in TrackedKeys : GetUsageLastHour(k)
    \/ \E k \in TrackedKeys : GetUsageLastMinute(k)
    \/ \E k \in {<<>>} \cup {<<m>> : m \in TrackedKeys} : ResetUsage(k)
    \/ \E m \in TrackedModels, w \in WindowArgs : CheckAndTriggerCooldown(m, w)

SpecTracker == Init /\ [][NextTracker]_vars

NextCooldown ==
    \/ \E d \in CooldownClockSteps : Advance(d)
    \/ \E m \in TrackedModels : IsOnCooldown(m)
    \/ \E m \in TrackedModels, d \in DurationArgs : TriggerCooldown(m, d)
    \/ \E m \in TrackedModels : ClearCooldown(m)

SpecCooldown == Init /\ [][NextCooldown]_vars

---------------------------------------------------------------------------
(* The router's calls, from every cooldown map over the configured models,  *)
(* with the clock advancing between calls.                                  *)

Intents == ConfiguredIntents \cup {"unknown"}

Preferences == {"cost", "speed", "quality", "balanced", "other"}

ExcludedArgs == {<<>>, <<"gpt-4">>, <<"gpt-3.5-turbo">>, <<"gpt-3.5-turbo", "claude-haiku-4">>}

FailedModelArgs == Models \cup {"test-model"}

MaxFallbacksArgs == 0..3

\* The durations the cooldowns of the first state were triggered with, at
\* time 0: 5 s and the default.
InitialDurations == {<<5>>, <<>>}

InitRouter ==
    /\ now = 0
    /\ usage = EmptyDict
    /\ total_usage = EmptyDict
    /\ log = EmptyDict
    /\ advances = 0
    /\ req = [r \in Requests |-> IdleRequest]
    /\ locks = [l \in Locks |-> <<>>]
    /\ threads = [t \in Threads |-> IdleThread]
    /\ \E cooled \in SUBSET Models :
         \E d \in [cooled -> InitialDurations] :
            /\ cooldowns = [m \in cooled |-> Ticks(trigger_duration(d[m]))]
            /\ cooldown_count = [m \in cooled |-> 1]
            /\ triggered = [m \in cooled |-> [at |-> 0, d |-> d[m]]]

SelectModel(intent, preference, excluded_models) ==
    /\ cooldowns' = select_model(cooldowns, intent, preference,
                                 excluded_models, now).cooldowns
    /\ UNCHANGED <<now, trackerVars, cooldown_count, triggered, advances, req, lockVars>>

GetFallbackChain(intent, failed_model, max_fallbacks) ==
    /\ cooldowns' = get_fallback_chain(cooldowns, intent, failed_model,
                                       max_fallbacks, now).cooldowns
    /\ UNCHANGED <<now, trackerVars, cooldown_count, triggered, advances, req, lockVars>>

IsModelAvailable(model) ==
    /\ cooldowns' = is_model_available(cooldowns, model, now).cooldowns
    /\ UNCHANGED <<now, trackerVars, cooldown_count, triggered, advances, req, lockVars>>

NextRouter ==
    \/ \E d \in CooldownClockSteps : Advance(d)
    \/ \E i \in Intents, p \in Preferences, x \in ExcludedArgs :
          SelectModel(i, p, x)
    \/ \E i \in Intents, f \in FailedModelArgs, n \in MaxFallbacksArgs :
          GetFallbackChain(i, f, n)
    \/ \E m \in Models : IsModelAvailable(m)

SpecRouter == InitRouter /\ [][NextRouter]_vars

---------------------------------------------------------------------------
(* Concurrent /generate requests.  The intent is detect_intent's answer for *)
(* the prompt; the result of a generation call is the provider's choice.    *)
(* In Spec the requests overlap and a call ends with a well-formed result   *)
(* or with an error; in SpecResults the requests follow one another and a   *)
(* call may also return a result without text.                              *)

\* The intent of a prompt that asks to explain something
RequestIntents == {"education"}

\* The preference a request carries when it names none.
RequestPreferences == {"balanced"}

\* Clock steps while requests are served, in ticks: the request timeout, one
\* hour.
RequestClockSteps == {Ticks(REQUEST_TIMEOUT_SECONDS), Ticks(3600)}

\* lines 93-138: intent, selection, fallback chain, first attempt up to the await
Generate(r, intent, preference) ==
    /\ req[r].pc = "idle"
    /\ \E i \in 1..Len(RequestOrder) :
          /\ RequestOrder[i] = r
          /\ \A j \in 1..(i - 1) : req[RequestOrder[j]].pc # "idle"
    /\ LET sel == select_model(cooldowns, intent, preference, <<>>, now)
           q == [req[r] EXCEPT !.intent = intent, !.preference = preference]
       IN  IF sel.ret = <<>>
           THEN /\ cooldowns' = sel.cooldowns
                /\ req' = [req EXCEPT ![r] = returned(no_models_response)]
           ELSE LET chain == get_fallback_chain(sel.cooldowns, intent, sel.ret[2], 3, now)
                IN  /\ cooldowns' = chain.cooldowns
                    /\ req' = [req EXCEPT ![r] =
                                   next_attempt(
                                       [q EXCEPT !.model_name = sel.ret[2],
                                                 !.all_attempts = <<sel.ret>> \o chain.ret],
                                       now)]
    /\ UNCHANGED <<now, trackerVars, cooldown_count, triggered, advances, lockVars>>

\* lines 140-179: provider.generate returned a result with this many tokens
GenerateSucceeds(r, tokens) ==
    /\ req[r].pc = "awaiting"
    /\ LET q == req[r]
           attempt == q.all_attempts[q.idx]
           s == on_success(usage, total_usage, cooldowns, cooldown_count,
                           attempt[1], attempt[2], tokens, now)
       IN  /\ usage' = s.usage
           /\ total_usage' = s.total_usage
           /\ log' = Logged(log, attempt[2], tokens, <<attempt[1]>>, now)
           /\ cooldowns' = s.cooldowns
           /\ cooldown_count' = s.cooldown_count
           /\ triggered' = IF s.cooldown_triggered
                           THEN DictSet(triggered, attempt[2], [at |-> now, d |-> <<>>])
                           ELSE triggered
           /\ req' = [req EXCEPT ![r] =
                          returned(success_response(q, attempt[1], attempt[2],
                                                    tokens, s.cooldown_triggered))]
    /\ UNCHANGED <<now, advances, lockVars>>

\* lines 181-211: provider.generate (or get_provider) raised this error
GenerateFails(r, error) ==
    /\ req[r].pc = "awaiting"
    /\ LET q == req[r]
           attempt == q.all_attempts[q.idx]
           e == on_error(cooldowns, cooldown_count, error, attempt[2], now)
       IN  /\ cooldowns' = e.cooldowns
           /\ cooldown_count' = e.cooldown_count
           /\ triggered' = IF error = "RateLimitError"
                           THEN DictSet(triggered, attempt[2], [at |-> now, d |-> <<600>>])
                           ELSE triggered
           /\ req' = [req EXCEPT ![r] = after_error(q, error, now)]
    /\ UNCHANGED <<now, trackerVars, advances, lockVars>>

\* lines 132-179, 198-201: provider.generate returned a result whose text is
\* None (OpenAI's message.content, passed on by normalize_response): the
\* usage is recorded and the threshold checked, then GenerateResponse(text=None)
\* raises inside the try, and "except Exception" goes on to the next attempt.
GenerateReturnsInvalid(r, tokens) ==
    /\ req[r].pc = "awaiting"
    /\ LET q == req[r]
           attempt == q.all_attempts[q.idx]
           s == on_success(usage, total_usage, cooldowns, cooldown_count,
                           attempt[1], attempt[2], tokens, now)
       IN  /\ usage' = s.usage
           /\ total_usage' = s.total_usage
           /\ log' = Logged(log, attempt[2], tokens, <<attempt[1]>>, now)
           /\ cooldowns' = s.cooldowns
           /\ cooldown_count' = s.cooldown_count
           /\ triggered' = IF s.cooldown_triggered
                           THEN DictSet(triggered, attempt[2], [at |-> now, d |-> <<>>])
                           ELSE triggered
           /\ req' = [req EXCEPT ![r] = after_error(q, "Exception", now)]
    /\ UNCHANGED <<now, advances, lockVars>>

\* The clock advances; a generation call lasts no longer than the request
\* timeout the provider's client is built with.
Elapse(d) ==
    /\ advances < MaxElapses
    /\ \A r \in Requests :
          req[r].pc = "awaiting" =>
              now + d <= req[r].since + Ticks(REQUEST_TIMEOUT_SECONDS)
    /\ now' = now + d
    /\ advances' = advances + 1
    /\ UNCHANGED <<trackerVars, cooldownVars, req, lockVars>>

\* lines 214-242: GET /stats, handled between two steps of the requests
GetStats ==
    /\ LET s == get_stats(usage, total_usage, cooldowns, now)
       IN  /\ usage' = s.usage
           /\ cooldowns' = s.cooldowns
    /\ UNCHANGED <<now, total_usage, log, cooldown_count, triggered, advances, req, lockVars>>

\* lines 255-262: POST /reset, handled between two steps of the requests
ResetSystem ==
    /\ LET s == reset_system(usage, total_usage, cooldowns)
       IN  /\ usage' = s.usage
           /\ total_usage' = s.total_usage
           /\ cooldowns' = s.cooldowns
    /\ log' = Forgotten(log, <<>>)
    /\ triggered' = EmptyDict
    /\ req' = [r \in Requests |-> [req[r] EXCEPT !.cleared = req[r].rate_limited]]
    /\ UNCHANGED <<now, cooldown_count, advances, lockVars>>

Next ==
    \/ \E r \in Requests, i \in RequestIntents, p \in RequestPreferences :
          Generate(r, i, p)
    \/ \E r \in Requests, n \in TokenCounts : GenerateSucceeds(r, n)
    \/ \E r \in Requests, e \in ErrorKinds : GenerateFails(r, e)
    \/ \E d \in RequestClockSteps : Elapse(d)
    \/ GetStats
    \/ ResetSystem

Spec == Init /\ [][Next]_vars

\* A request arrives while no other is waiting on a provider.
GenerateAlone(r, intent, preference) ==
    /\ \A o \in Requests : req[o].pc # "awaiting"
    /\ Generate(r, intent, preference)

\* Requests served one after the other, with every kind of result of a
\* generation call: a well-formed result, an error, a result without text.
NextResults ==
    \/ \E r \in Requests, i \in RequestIntents, p \in RequestPreferences :
          GenerateAlone(r, i, p)
    \/ \E r \in Requests, n \in TokenCounts : GenerateSucceeds(r, n)
    \/ \E r \in Requests, e \in ErrorKinds : GenerateFails(r, e)
    \/ \E r \in Requests, n \in TokenCounts : GenerateReturnsInvalid(r, n)
    \/ \E d \in RequestClockSteps : Elapse(d)
    \/ GetStats
    \/ ResetSystem

SpecResults == Init /\ [][NextResults]_vars

---------------------------------------------------------------------------
(* The tracking package called from several threads.  Each method body is a *)
(* "with self._lock:" section; a call is the sequence of its acquire and    *)
(* release steps, and what a section does to the fields happens while its   *)
(* lock is held, here at the release.                                       *)

ThreadOps ==
    {"record_usage", "get_usage_in_window", "get_total_usage", "reset_usage",
     "is_on_cooldown", "trigger_cooldown", "check_and_trigger_cooldown",
     "clear_cooldown"}

TrackerOps ==
    {"record_usage", "get_usage_in_window", "get_total_usage", "reset_usage"}

\* The tracker's methods whose section first reads the fields and then
\* stores what it computed from them: "+=" on a total in record_usage, the
\* sum and the rebuilt list in get_usage_in_window.
ReadingOps == {"record_usage", "get_usage_in_window"}

\* Variant: record_usage runs its section without the lock.
lock_steps_unlocked(op) ==
    IF op = "check_and_trigger_cooldown"
    THEN << <<"acquire", "tracker">>, <<"read", "tracker">>, <<"release", "tracker">>,
            <<"acquire", "cooldown">>, <<"release", "cooldown">> >>
    ELSE IF op = "record_usage"
    THEN << <<"read", "tracker">>, <<"release", "tracker">> >>
    ELSE IF op \in ReadingOps
    THEN << <<"acquire", "tracker">>, <<"read", "tracker">>, <<"release", "tracker">> >>
    ELSE IF op \in TrackerOps
    THEN << <<"acquire", "tracker">>, <<"release", "tracker">> >>
    ELSE << <<"acquire", "cooldown">>, <<"release", "cooldown">> >>

\* Variant: check_and_trigger_cooldown reads the tracker inside its own
\* lock's section.
lock_steps_nested(op) ==
    IF op = "check_and_trigger_cooldown"
    THEN << <<"acquire", "cooldown">>, <<"acquire", "tracker">>,
            <<"read", "tracker">>,
            <<"release", "tracker">>, <<"release", "cooldown">> >>
    ELSE IF op \in ReadingOps
    THEN << <<"acquire", "tracker">>, <<"read", "tracker">>, <<"release", "tracker">> >>
    ELSE IF op \in TrackerOps
    THEN << <<"acquire", "tracker">>, <<"release", "tracker">> >>
    ELSE << <<"acquire", "cooldown">>, <<"release", "cooldown">> >>

\* The lock steps of a call, in program order.  check_and_trigger_cooldown
\* calls get_usage_in_window, then (at or over the threshold) trigger_cooldown.
lock_steps(op) ==
    IF op = "check_and_trigger_cooldown"
    THEN << <<"acquire", "tracker">>, <<"read", "tracker">>, <<"release", "tracker">>,
            <<"acquire", "cooldown">>, <<"release", "cooldown">> >>
    ELSE IF op \in ReadingOps
    THEN << <<"acquire", "tracker">>, <<"read", "tracker">>, <<"release", "tracker">> >>
    ELSE IF op \in TrackerOps
    THEN << <<"acquire", "tracker">>, <<"release", "tracker">> >>
    ELSE << <<"acquire", "cooldown">>, <<"release", "cooldown">> >>

\* The step a thread is at
step_of(th) == lock_steps(th.op)[th.pos]

\* The locks a thread holds
held_by(lk, t) == {l \in Locks : lk[l] = <<t>>}

\* The keys a call's section reads before it stores
read_keys(th) ==
    IF th.op = "record_usage"
    THEN {th.model} \cup {provider_key(th.provider[k]) : k \in 1..Len(th.provider)}
    ELSE {th.model}

\* What the section reads of a dict: its entries for these keys
read_of(d, keys) == [k \in (DOMAIN d) \cap keys |-> d[k]]

\* The dict as the section sees it when it stores: the entries it has read,
\* the present ones for the other keys
with_read(d, read, keys) ==
    [k \in ((DOMAIN d) \ keys) \cup DOMAIN read |->
        IF k \in DOMAIN read THEN read[k] ELSE d[k]]

\* The tracker's section of a call: the fields afterwards and the value
\* read.  record_usage appends to the present lists and stores the totals
\* it has read plus the tokens; get_usage_in_window sums and rebuilds the
\* list it has read.
tracker_section(th, u, tot, t) ==
    IF th.op = "record_usage"
    THEN LET r == record_usage(u, with_read(tot, th.read, read_keys(th)),
                               th.model, th.tokens, th.provider, t)
         IN  [usage |-> r.usage, total_usage |-> r.total_usage, ret |-> 0]
    ELSE IF th.op \in {"get_usage_in_window", "check_and_trigger_cooldown"}
    THEN LET r == get_usage_in_window(with_read(u, th.read, read_keys(th)),
                                      th.model, 3600, t)
         IN  [usage |-> r.usage, total_usage |-> tot, ret |-> r.ret]
    ELSE IF th.op = "reset_usage"
    THEN LET r == reset_usage(u, tot, <<>>)
         IN  [usage |-> r.usage, total_usage |-> r.total_usage, ret |-> 0]
    ELSE [usage |-> u, total_usage |-> tot, ret |-> get_total_usage(tot, th.model)]

\* The cooldown manager's section of a call
cooldown_section(th, cd, cnt, t) ==
    IF th.op \in {"trigger_cooldown", "check_and_trigger_cooldown"}
    THEN trigger_cooldown(cd, cnt, th.model, <<>>, t)
    ELSE IF th.op = "is_on_cooldown"
    THEN [cooldowns |-> is_on_cooldown(cd, th.model, t).cooldowns,
          cooldown_count |-> cnt]
    ELSE [cooldowns |-> clear_cooldown(cd, th.model), cooldown_count |-> cnt]

\* The call returns after this release: it was the last step, or
\* check_and_trigger_cooldown has read a usage under the threshold.
returns_after(th, ret) ==
    \/ th.pos = Len(lock_steps(th.op))
    \/ /\ th.op = "check_and_trigger_cooldown"
       /\ step_of(th)[2] = "tracker"
       /\ ret < TOKEN_COOLDOWN_THRESHOLD

\* A thread enters a method.
Call(t, op, model, tokens, provider) ==
    /\ threads[t].op = "idle"
    /\ op = "record_usage" => SumLengths(log) < MaxRecords
    /\ op \in {"trigger_cooldown", "check_and_trigger_cooldown"} =>
          SumValues(cooldown_count) < MaxTriggers
    /\ threads' = [threads EXCEPT ![t] =
                      [op |-> op, pos |-> 1, model |-> model,
                       tokens |-> IF op = "record_usage" THEN tokens ELSE 0,
                       provider |-> IF op = "record_usage" THEN provider ELSE <<>>,
                       usage |-> 0, read |-> <<>>]]
    /\ UNCHANGED <<now, trackerVars, cooldownVars, advances, req, locks>>

\* "with self._lock:" is entered: the thread waits until the lock is free.
Acquire(t) ==
    /\ threads[t].op # "idle"
    /\ step_of(threads[t])[1] = "acquire"
    /\ locks[step_of(threads[t])[2]] = <<>>
    /\ locks' = [locks EXCEPT ![step_of(threads[t])[2]] = <<t>>]
    /\ threads' = [threads EXCEPT ![t].pos = @ + 1]
    /\ UNCHANGED <<now, trackerVars, cooldownVars, advances, req>>

\* The section reads the fields it is going to store.
Read(t) ==
    /\ threads[t].op # "idle"
    /\ step_of(threads[t])[1] = "read"
    /\ threads' = [threads EXCEPT
                      ![t].pos = @ + 1,
                      ![t].read = IF threads[t].op = "record_usage"
                                  THEN read_of(total_usage, read_keys(threads[t]))
                                  ELSE read_of(usage, read_keys(threads[t]))]
    /\ UNCHANGED <<now, trackerVars, cooldownVars, advances, req, locks>>

\* The section stores and its lock is released; a return releases whatever
\* the thread still holds.
Release(t) ==
    /\ threads[t].op # "idle"
    /\ step_of(threads[t])[1] = "release"
    /\ LET th == threads[t]
           l == step_of(th)[2]
           ts == tracker_section(th, usage, total_usage, now)
           cs == cooldown_section(th, cooldowns, cooldown_count, now)
           ret == IF l = "tracker" THEN ts.ret ELSE th.usage
           done == returns_after(th, ret)
       IN  /\ IF l = "tracker"
              THEN /\ usage' = ts.usage
                   /\ total_usage' = ts.total_usage
                   /\ log' = IF th.op = "record_usage"
                             THEN Logged(log, th.model, th.tokens, th.provider, now)
                             ELSE IF th.op = "reset_usage"
                             THEN Forgotten(log, <<>>)
                             ELSE log
                   /\ UNCHANGED cooldownVars
              ELSE /\ cooldowns' = cs.cooldowns
                   /\ cooldown_count' = cs.cooldown_count
                   /\ triggered' =
                         IF th.op \in {"trigger_cooldown", "check_and_trigger_cooldown"}
                         THEN DictSet(triggered, th.model, [at |-> now, d |-> <<>>])
                         ELSE triggered
                   /\ UNCHANGED trackerVars
           /\ locks' = [k \in Locks |->
                           IF locks[k] = <<t>> /\ (k = l \/ done) THEN <<>>
                           ELSE locks[k]]
           /\ threads' = [threads EXCEPT ![t] =
                             IF done THEN IdleThread
                             ELSE [th EXCEPT !.pos = th.pos + 1, !.usage = ret,
                                             !.read = <<>>]]
    /\ UNCHANGED <<now, advances, req>>

NextLocks ==
    \/ \E t \in Threads, op \in ThreadOps, m \in RecordedModels,
          n \in TokenCounts, p \in ProviderArgs : Call(t, op, m, n, p)
    \/ \E t \in Threads : Acquire(t)
    \/ \E t \in Threads : Read(t)
    \/ \E t \in Threads : Release(t)

SpecLocks == Init /\ [][NextLocks]_vars

---------------------------------------------------------------------------
(* Properties of the cooldown manager and the token tracker *)

\* What the tracker's callers recorded for a key, in the window ending at t
RecordedInWindow(key, window_seconds, t) ==
    SumTokens(SelectSeq(DictGet(log, key, <<>>),
                        LAMBDA smp : smp[1] >= t - Ticks(window_seconds) /\ smp[1] <= t))

\* C1: is_on_cooldown(m) returns false immediately after clear_cooldown(m),
\* true immediately after trigger_cooldown(m, d) with d > 0, and, as long as
\* m is not triggered again, false at every time at or after d seconds past
\* that trigger.
C1_ClearTriggerExpire ==
    [][ /\ \A m \in TrackedModels :
             ClearCooldown(m) => ~is_on_cooldown(cooldowns', m, now').ret
        /\ \A m \in TrackedModels, d \in DurationArgs :
             (d # <<>> /\ d[1] > 0 /\ TriggerCooldown(m, d))
                 => is_on_cooldown(cooldowns', m, now').ret
        /\ \A m \in DOMAIN triggered' :
             LET g == triggered'[m]
             IN  (g.d # <<>> /\ g.d[1] > 0 /\ now' >= g.at + Ticks(g.d[1]))
                     => ~is_on_cooldown(cooldowns', m, now').ret
      ]_vars

\* A cooldown triggered with d = 5 whose entry is still in the map when its
\* d seconds have passed: is_on_cooldown must answer from the clock.
C1_Witness ==
    \E m \in DOMAIN triggered :
        /\ triggered[m].d = <<5>>
        /\ now >= triggered[m].at + Ticks(5)
        /\ m \in DOMAIN cooldowns
        /\ ~is_on_cooldown(cooldowns, m, now).ret

\* C2: check_and_trigger_cooldown(m, W) returns true iff
\* get_usage_in_window(m, W) at that call is >= the threshold; when it returns
\* true m is on cooldown with expiry now + the default duration; when it
\* returns false no expiry and no trigger count has changed.
C2_CheckAndTrigger ==
    \A m \in TrackedModels, w \in WindowArgs :
        LET r == check_and_trigger_cooldown(usage, cooldowns, cooldown_count, m, w, now)
            seen == get_usage_in_window(usage, m, w, now).ret
        IN  /\ r.ret <=> (seen >= TOKEN_COOLDOWN_THRESHOLD)
            /\ r.ret =>
                  /\ m \in DOMAIN r.cooldowns
                  /\ r.cooldowns[m] = now + Ticks(COOLDOWN_DURATION_SECONDS)
                  /\ is_on_cooldown(r.cooldowns, m, now).ret
            /\ ~r.ret =>
                  /\ r.cooldowns = cooldowns
                  /\ r.cooldown_count = cooldown_count

\* A check has just put a model whose window holds the threshold exactly on
\* cooldown, and the other model is below the threshold.
C2_Witness ==
    \E m \in TrackedModels :
        /\ m \in DOMAIN triggered
        /\ triggered[m] = [at |-> now, d |-> <<>>]
        /\ m \in DOMAIN cooldowns
        /\ cooldowns[m] = now + Ticks(COOLDOWN_DURATION_SECONDS)
        /\ get_usage_in_window(usage, m, 3600, now).ret = TOKEN_COOLDOWN_THRESHOLD
        /\ \E o \in TrackedModels :
              ~check_and_trigger_cooldown(usage, cooldowns, cooldown_count,
                                          o, 3600, now).ret

\* C3: after any sequence of record_usage and get_usage_in_window calls since
\* the last reset, get_usage_in_window(m, W) returns the sum of the tokens of
\* all samples recorded for m with a timestamp in [now - W, now].
C3_WindowSumOfRecorded ==
    \A k \in TrackedKeys, w \in WindowArgs :
        get_usage_in_window(usage, k, w, now).ret = RecordedInWindow(k, w, now)

\* C4: get_total_usage(m) is the sum of the tokens of all record_usage calls
\* for m since m's last reset, however many window queries have pruned m's
\* samples; it is 0 for a key never recorded.
C4_TotalIsLifetimeSum ==
    \A k \in TrackedKeys \cup {"never-recorded"} :
        get_total_usage(total_usage, k) = SumTokens(DictGet(log, k, <<>>))

\* A key whose stored samples have been pruned below what was recorded, with
\* two records in its total.
C4_Witness ==
    \E k \in DOMAIN usage :
        /\ Len(log[k]) = 2
        /\ Len(usage[k]) < Len(log[k])
        /\ get_total_usage(total_usage, k) = SumTokens(log[k])
        /\ get_total_usage(total_usage, k) > 0

---------------------------------------------------------------------------
(* Properties of the router *)

\* The configured candidates of an intent, as a set
CandidatesOf(intent) ==
    LET lst == IF intent \in ConfiguredIntents THEN INTENT_ROUTING[intent]
               ELSE <<"gpt-3.5-turbo">>
    IN  {lst[i] : i \in 1..Len(lst)}

\* m's entry says it is cooling at time t
Cooling(m, t) == m \in DOMAIN cooldowns /\ t < cooldowns[m]

\* The candidates of an intent that are neither excluded nor cooling
Eligible(intent, excluded_models) ==
    {m \in CandidatesOf(intent) : ~InList(m, excluded_models) /\ ~Cooling(m, now)}

\* C5: select_model returns none exactly when every candidate of the intent
\* (gpt-3.5-turbo alone for an unknown intent) is excluded or on cooldown at
\* call time; otherwise it returns (provider, model) with model a candidate
\* that is not excluded and not on cooldown, and provider its configured
\* provider.
C5_SelectModel ==
    \A i \in Intents, p \in Preferences, x \in ExcludedArgs :
        LET r == select_model(cooldowns, i, p, x, now).ret
        IN  /\ (r = <<>>) <=> (Eligible(i, x) = {})
            /\ r # <<>> =>
                  /\ Len(r) = 2
                  /\ r[2] \in Eligible(i, x)
                  /\ ~is_on_cooldown(cooldowns, r[2], now).ret
                  /\ r[1] = MODEL_CONFIG[r[2]].provider

\* After router calls have evicted an expired entry: some intent has no
\* eligible candidate left, another still has one although one of its
\* candidates is cooling.
C5_Witness ==
    /\ \E m \in DOMAIN triggered : m \notin DOMAIN cooldowns
    /\ \E i \in Intents :
          /\ select_model(cooldowns, i, "balanced", <<>>, now).ret = <<>>
          /\ Eligible(i, <<>>) = {}
    /\ \E i \in Intents :
          /\ select_model(cooldowns, i, "balanced", <<>>, now).ret # <<>>
          /\ \E m \in CandidatesOf(i) : Cooling(m, now)

\* C6: with preference "cost", the model select_model returns has the least
\* cost_per_1k of the candidates that are not excluded and not on cooldown.
C6_CostIsMinimal ==
    \A i \in Intents, x \in ExcludedArgs :
        LET r == select_model(cooldowns, i, "cost", x, now).ret
        IN  r # <<>> =>
              \A m \in Eligible(i, x) :
                  MODEL_CONFIG[r[2]].cost_per_1k <= MODEL_CONFIG[m].cost_per_1k

\* The cheapest candidate of an intent is cooling, and "cost" picks another
\* model than "balanced" does.
C6_Witness ==
    \E i \in Intents :
        LET c == select_model(cooldowns, i, "cost", <<>>, now).ret
            b == select_model(cooldowns, i, "balanced", <<>>, now).ret
        IN  /\ c # <<>>
            /\ b # <<>>
            /\ c[2] # b[2]
            /\ \E m \in CandidatesOf(i) :
                  /\ Cooling(m, now)
                  /\ MODEL_CONFIG[m].cost_per_1k < MODEL_CONFIG[c[2]].cost_per_1k

\* C7: for max_fallbacks >= 0, get_fallback_chain never contains the failed
\* model, never contains a model on cooldown at call time, and is no longer
\* than max_fallbacks.
C7_FallbackChain ==
    \A i \in Intents, f \in FailedModelArgs, n \in MaxFallbacksArgs :
        LET chain == get_fallback_chain(cooldowns, i, f, n, now).ret
        IN  /\ Len(chain) <= n
            /\ \A k \in 1..Len(chain) :
                  /\ chain[k][2] # f
                  /\ ~Cooling(chain[k][2], now)
                  /\ ~is_on_cooldown(cooldowns, chain[k][2], now).ret

\* A chain cut by max_fallbacks = 1 although two fallbacks are eligible, and
\* a chain shortened by a cooling model.
C7_Witness ==
    /\ \E i \in Intents, f \in Models :
          /\ Len(get_fallback_chain(cooldowns, i, f, 1, now).ret) = 1
          /\ Len(get_fallback_chain(cooldowns, i, f, 3, now).ret) = 2
    /\ \E i \in Intents, f \in Models :
          /\ Len(get_fallback_chain(cooldowns, i, f, 3, now).ret) = 1
          /\ \E m \in CandidatesOf(i) : m # f /\ Cooling(m, now)

---------------------------------------------------------------------------
(* Properties of the /generate handler *)

\* The model of the attempt a request is waiting on
AttemptModel(r) == req[r].all_attempts[req[r].idx][2]

\* A rate limit on the attempted model A forces A's expiry to now + 600 s
\* (whatever A's usage) and the request goes on to its next attempt, or to
\* the 500 when A was the last one.
RateLimitForcesCooldown(r) ==
    (req[r].pc = "awaiting" /\ GenerateFails(r, "RateLimitError")) =>
        /\ AttemptModel(r) \in DOMAIN cooldowns'
        /\ cooldowns'[AttemptModel(r)] = now + Ticks(600)
        /\ is_on_cooldown(cooldowns', AttemptModel(r), now').ret
        /\ IF req[r].idx < Len(req[r].all_attempts)
           THEN /\ req'[r].pc = "awaiting"
                /\ req'[r].idx = req[r].idx + 1
           ELSE req'[r].response.status_code = 500

\* The request was rate limited on an earlier attempt and its present
\* attempt succeeds.
SucceedsAfterRateLimit(r, tokens) ==
    /\ req[r].pc = "awaiting"
    /\ req[r].rate_limited # {}
    /\ GenerateSucceeds(r, tokens)

\* The response carries the result of the present attempt, as a fallback.
FallbackResult(r, tokens) ==
        /\ req'[r].pc = "done"
        /\ req'[r].response.status_code = 200
        /\ req'[r].response.model_used = AttemptModel(r)
        /\ req'[r].response.tokens_used = tokens
        /\ AttemptModel(r) \notin req[r].rate_limited
        /\ req'[r].response.fallback_used = TRUE

\* C8 as stated: a rate limit on A forces a cooldown on A expiring at
\* now + 600 s whatever A's usage, and the request proceeds; when a later
\* attempt on B succeeds the response carries B's result with fallback_used
\* true, and is_on_cooldown(A) is true when the request returns.
C8_Original ==
    [][ \A r \in Requests :
          /\ RateLimitForcesCooldown(r)
          /\ \A n \in TokenCounts :
                SucceedsAfterRateLimit(r, n) =>
                    /\ FallbackResult(r, n)
                    /\ \A a \in req[r].rate_limited :
                          is_on_cooldown(cooldowns', a, now').ret ]_vars

\* C8 (amended): as C8, with is_on_cooldown(A) true at the return for every
\* rate-limited A whose cooldown no POST /reset has cleared since the error.
C8_RateLimitFallback ==
    [][ \A r \in Requests :
          /\ RateLimitForcesCooldown(r)
          /\ \A n \in TokenCounts :
                SucceedsAfterRateLimit(r, n) =>
                    /\ FallbackResult(r, n)
                    /\ \A a \in req[r].rate_limited \ req[r].cleared :
                          is_on_cooldown(cooldowns', a, now').ret ]_vars

\* A request has returned B's result as a fallback right after a rate limit
\* on its primary A, and A's cooldown runs for 600 s from now.
C8_Witness ==
    \E r \in Requests :
        /\ req[r].pc = "done"
        /\ req[r].response.status_code = 200
        /\ req[r].response.fallback_used
        /\ req[r].response.fallback_reason =
               "Primary model failed: " \o str("RateLimitError")
        /\ Len(req[r].response.tried_models) = 2
        /\ LET a == req[r].response.tried_models[1]
           IN  /\ a # req[r].response.model_used
               /\ a \in DOMAIN cooldowns
               /\ cooldowns[a] = now + Ticks(600)
               /\ is_on_cooldown(cooldowns, a, now).ret

\* C9: when every candidate of the request's intent is on cooldown at
\* selection time, the request ends with the 503 without any generation
\* call (it never waits on a provider), without recording a usage sample or
\* a lifetime total, and without changing any cooldown or trigger count.
C9_AllOnCooldown ==
    [][ \A r \in Requests, i \in RequestIntents, p \in RequestPreferences :
          (Generate(r, i, p) /\ \A m \in CandidatesOf(i) : Cooling(m, now)) =>
              /\ req'[r].pc = "done"
              /\ req'[r].response = [status_code |-> 503]
              /\ req'[r].tried_models = <<>>
              /\ usage' = usage
              /\ total_usage' = total_usage
              /\ log' = log
              /\ cooldowns' = cooldowns
              /\ cooldown_count' = cooldown_count ]_vars

\* A request has ended with the 503 while cooldowns are running.
C9_Witness ==
    \E r \in Requests :
        /\ req[r].pc = "done"
        /\ req[r].response.status_code = 503
        /\ \E m \in DOMAIN cooldowns : now < cooldowns[m]

\* C10: when the last attempt of a request's attempt sequence fails (so every
\* attempt has failed, with any mix of errors), the request ends with the 500
\* whose tried_models is the whole attempt sequence in the order attempted,
\* the primary first, and whose last_error is the final attempt's error.
C10_AllFailed ==
    [][ \A r \in Requests, e \in ErrorKinds :
          (GenerateFails(r, e) /\ req[r].idx = Len(req[r].all_attempts)) =>
              /\ req'[r].pc = "done"
              /\ req'[r].response.status_code = 500
              /\ req'[r].response.tried_models =
                     [k \in 1..Len(req[r].all_attempts) |-> req[r].all_attempts[k][2]]
              /\ req'[r].response.tried_models[1] = req[r].model_name
              /\ req'[r].response.last_error = str(e) ]_vars

\* A request has ended with the 500 after three attempts, and another after
\* one attempt.
C10_Witness ==
    /\ \E r \in Requests :
          /\ req[r].pc = "done"
          /\ req[r].response.status_code = 500
          /\ Len(req[r].response.tried_models) = 3
          /\ req[r].response.last_error = str("TimeoutError")
    /\ \E r \in Requests :
          /\ req[r].pc = "done"
          /\ req[r].response.status_code = 500
          /\ Len(req[r].response.tried_models) = 1

---------------------------------------------------------------------------
(* Properties of reset and of the cooldown state of a model *)

\* The keys a caller may ask the tracker about
AllKeys ==
    Models \cup TrackedKeys
        \cup {provider_key(MODEL_CONFIG[m].provider) : m \in Models}

\* C11: right after POST /reset (reset_usage() with no key, then
\* clear_cooldown of every key), from whatever state, get_total_usage is 0 for
\* every key, get_all_usage() is empty and get_all_cooldowns() is empty.
C11_ResetClearsAll ==
    [][ ResetSystem =>
          /\ \A k \in AllKeys : get_total_usage(total_usage', k) = 0
          /\ DOMAIN get_all_usage(total_usage') = {}
          /\ DOMAIN get_all_cooldowns(cooldowns', now') = {} ]_vars

\* A reset has been handled after a request had recorded usage and another
\* had been rate limited: the response of the first is out, the cooldown of
\* the second is marked cleared, and nothing is left of either.
C11_Witness ==
    /\ \E r \in Requests :
          req[r].pc = "done" /\ req[r].response.status_code = 200
    /\ \E r \in Requests : req[r].cleared # {}
    /\ DOMAIN total_usage = {}
    /\ DOMAIN cooldowns = {}
    /\ DOMAIN cooldown_count # {}

\* COOLING: the model has an entry whose expiry is still ahead
OnCooldown(cd, m, t) == m \in DOMAIN cd /\ t < cd[m]

\* A step that triggers a cooldown on m
Triggers(m) ==
    /\ m \in DOMAIN cooldown_count'
    /\ cooldown_count'[m] = DictGet(cooldown_count, m, 0) + 1

BecomesCooling(m) ==
    ~OnCooldown(cooldowns, m, now) /\ OnCooldown(cooldowns', m, now')

BecomesActive(m) ==
    OnCooldown(cooldowns, m, now) /\ ~OnCooldown(cooldowns', m, now')

\* C12 as stated: a model's cooldown state changes only from ACTIVE to
\* COOLING on a trigger and from COOLING to ACTIVE when the expiry elapses;
\* no step takes a model from COOLING to ACTIVE before its expiry.
C12_Original ==
    [][ \A m \in Models :
          /\ BecomesCooling(m) => Triggers(m)
          /\ BecomesActive(m) => now' >= cooldowns[m] ]_vars

\* C12 (amended): as C12, except that clear_cooldown(m), and POST /reset
\* which calls it for every key, take m from COOLING to ACTIVE before its
\* expiry; no other step does.
C12_CooldownTransitions ==
    [][ \A m \in Models :
          /\ BecomesCooling(m) => Triggers(m)
          /\ BecomesActive(m) =>
                \/ now' >= cooldowns[m]
                \/ ResetSystem
                \/ ClearCooldown(m) ]_vars

\* A model is COOLING after a trigger while another, triggered as well, is
\* ACTIVE again because the clock has passed its expiry.
C12_Witness ==
    \E m, o \in Models :
        /\ OnCooldown(cooldowns, m, now)
        /\ m \in DOMAIN cooldown_count
        /\ o \in DOMAIN triggered
        /\ ~OnCooldown(cooldowns, o, now)
        /\ now >= triggered[o].at + Ticks(trigger_duration(triggered[o].d))

\* C13: trigger_cooldown(m, d) sets m's expiry to exactly now + d (the
\* default duration when d is left out) whether m was ACTIVE or COOLING,
\* adds exactly 1 to m's trigger count, and leaves the expiry and the count
\* of every other key as they were.
C13_TriggerSetsExpiry ==
    [][ \A m \in TrackedModels, d \in DurationArgs :
          TriggerCooldown(m, d) =>
              /\ m \in DOMAIN cooldowns'
              /\ cooldowns'[m] =
                     now + Ticks(IF d = <<>> THEN COOLDOWN_DURATION_SECONDS ELSE d[1])
              /\ cooldown_count'[m] = DictGet(cooldown_count, m, 0) + 1
              /\ \A o \in (DOMAIN cooldowns' \cup DOMAIN cooldowns) \ {m} :
                    /\ o \in DOMAIN cooldowns' /\ o \in DOMAIN cooldowns
                    /\ cooldowns'[o] = cooldowns[o]
              /\ \A o \in (DOMAIN cooldown_count' \cup DOMAIN cooldown_count) \ {m} :
                    /\ o \in DOMAIN cooldown_count' /\ o \in DOMAIN cooldown_count
                    /\ cooldown_count'[o] = cooldown_count[o] ]_vars

---------------------------------------------------------------------------
(* Properties of the two locks *)

\* The thread is at an acquire: it waits for that lock.
WaitsFor(t, l) ==
    /\ threads[t].op # "idle"
    /\ step_of(threads[t]) = <<"acquire", l>>

\* C14: in every interleaving no thread holds the tracker's lock and the
\* cooldown manager's lock at once (check_and_trigger_cooldown has left the
\* tracker's section before it enters the cooldown manager's), no thread
\* waits for a lock while it holds one, and so no two threads each hold one
\* lock and wait for the other.
C14_NeverBothLocks ==
    /\ \A t \in Threads : Cardinality(held_by(locks, t)) <= 1
    /\ \A t \in Threads, l \in Locks : WaitsFor(t, l) => held_by(locks, t) = {}
    /\ ~ \E t, u \in Threads :
            /\ t # u
            /\ locks["tracker"] = <<t>> /\ WaitsFor(t, "cooldown")
            /\ locks["cooldown"] = <<u>> /\ WaitsFor(u, "tracker")

\* One thread is in the cooldown manager's section of
\* check_and_trigger_cooldown, having read a usage at or over the threshold,
\* while the other is in a section of the tracker.
C14_Witness ==
    \E t, u \in Threads :
        /\ t # u
        /\ threads[t].op = "check_and_trigger_cooldown"
        /\ threads[t].usage >= TOKEN_COOLDOWN_THRESHOLD
        /\ locks["cooldown"] = <<t>>
        /\ locks["tracker"] = <<u>>

(***************************************************************************)
(* C15                                                                     *)
(***************************************************************************)

\* 1 + max_fallbacks, with the max_fallbacks = 3 the handler passes
MaxGenerationCalls == 1 + 3

\* The generation call request r awaits ends, with a result or an error.
CallEnds(r) ==
    \/ \E n \in TokenCounts : GenerateSucceeds(r, n)
    \/ \E e \in ErrorKinds : GenerateFails(r, e)

\* The outcome of a finished request: success, capacity exhausted, aggregate
\* failure.
Outcomes == {200, 503, 500}

\* C15: every request ends with exactly one of the three outcomes after at
\* most 1 + max_fallbacks generation calls: the number of calls made so far
\* (idx, the length of tried_models) never passes that bound, every end of a
\* generation call either finishes the request or moves it to the next
\* attempt of an unchanged sequence, whatever the error and whatever the
\* other request does, nothing else moves it, and a finished request keeps
\* its one outcome.
C15_BoundedAttempts ==
    [][ \A r \in Requests :
          /\ req'[r].pc = "awaiting" =>
                /\ Len(req'[r].all_attempts) <= MaxGenerationCalls
                /\ req'[r].idx \in 1..Len(req'[r].all_attempts)
                /\ Len(req'[r].tried_models) = req'[r].idx
          /\ req'[r].pc = "done" =>
                /\ req'[r].response.status_code \in Outcomes
                /\ req'[r].response.status_code \in {200, 500} =>
                      Len(req'[r].response.tried_models) \in 1..MaxGenerationCalls
          /\ req[r].pc = "awaiting" =>
                /\ req'[r].pc \in {"awaiting", "done"}
                /\ req'[r].pc = "awaiting" =>
                      /\ req'[r].all_attempts = req[r].all_attempts
                      /\ req'[r].idx \in {req[r].idx, req[r].idx + 1}
                /\ CallEnds(r) =>
                      \/ req'[r].pc = "done"
                      \/ req'[r].idx = req[r].idx + 1
                /\ req'[r].pc = "done" =>
                      Len(req'[r].response.tried_models) = req[r].idx
          /\ req[r].pc = "done" => req'[r] = req[r]
      ]_vars

\* A request failed after its whole sequence of attempts while the other
\* request, started meanwhile, succeeded.
C15_Witness ==
    \E r, o \in Requests :
        /\ req[r].pc = "done"
        /\ req[r].response.status_code = 500
        /\ Len(req[r].response.tried_models) >= 3
        /\ req[o].pc = "done"
        /\ req[o].response.status_code = 200

(***************************************************************************)
(* C16                                                                     *)
(***************************************************************************)

\* What history l of recorded samples holds for a key in the window ending
\* at t
RecordedOf(l, key, window_seconds, t) ==
    SumTokens(SelectSeq(DictGet(l, key, <<>>),
                        LAMBDA smp : smp[1] >= t - Ticks(window_seconds) /\ smp[1] <= t))

\* Request r returns a success in this step.
Succeeds(r) ==
    /\ req[r].pc = "awaiting"
    /\ req'[r].pc = "done"
    /\ req'[r].response.status_code = 200

\* Request r is routed in this step: select_model and get_fallback_chain
\* are called and their results make up all_attempts.
Routed(r) == req[r].pc = "idle" /\ req'[r].pc = "awaiting"

\* C16: when a request succeeds on model m and what was recorded for m in
\* the last 3600 seconds, this request's tokens included, has reached the
\* threshold, the response says cooldown_triggered and m is on cooldown at
\* the return; no select_model and no get_fallback_chain call of a request
\* returns a model that is on cooldown, and a model stays on cooldown until
\* its expiry has passed or the cooldowns are cleared.
C16_ThresholdRemovesModel ==
    [][ /\ \A r \in Requests :
              /\ Succeeds(r) =>
                    LET m == req'[r].response.model_used
                    IN  RecordedOf(log', m, 3600, now') >= TOKEN_COOLDOWN_THRESHOLD =>
                            /\ req'[r].response.cooldown_triggered
                            /\ OnCooldown(cooldowns', m, now')
              /\ Routed(r) =>
                    \A k \in 1..Len(req'[r].all_attempts) :
                        ~OnCooldown(cooldowns, req'[r].all_attempts[k][2], now)
        /\ \A m \in Models :
              BecomesActive(m) => (now' >= cooldowns[m] \/ ResetSystem)
      ]_vars

\* A request succeeded on its primary model at the threshold, no call on
\* that model failed, and the next request is being served by another model
\* while the first is on cooldown.
C16_Witness ==
    \E r, o \in Requests :
        /\ req[r].pc = "done"
        /\ req[r].response.status_code = 200
        /\ req[r].response.cooldown_triggered
        /\ ~req[r].response.fallback_used
        /\ OnCooldown(cooldowns, req[r].response.model_used, now)
        /\ RecordedInWindow(req[r].response.model_used, 3600, now) >= TOKEN_COOLDOWN_THRESHOLD
        /\ req[o].pc = "awaiting"
        /\ req[o].idx = 1
        /\ req[o].model_name # req[r].response.model_used
        /\ INTENT_ROUTING[req[o].intent][1] = req[r].response.model_used

(***************************************************************************)
(* C17                                                                     *)
(***************************************************************************)

\* C17: POST /reset clears all usage and cooldown state: after it, no key
\* has a usage sample, a lifetime total or a cooldown expiry, and
\* get_statistics reports a trigger count for no key.
C17_ResetClearsCounts ==
    [][ ResetSystem =>
          /\ \A k \in DOMAIN usage' : usage'[k] = <<>>
          /\ DOMAIN total_usage' = {}
          /\ DOMAIN cooldowns' = {}
          /\ \A k \in DOMAIN get_statistics(cooldown_count') :
                get_statistics(cooldown_count')[k] = 0
      ]_vars

(***************************************************************************)
(* C18                                                                     *)
(***************************************************************************)

\* The attempt request r awaits fails with a timeout, a provider error or an
\* unexpected exception.
FailsWithoutRateLimit(r) ==
    \/ \E e \in ErrorKinds \ {"RateLimitError"} : GenerateFails(r, e)
    \/ \E n \in TokenCounts : GenerateReturnsInvalid(r, n)

\* C18: when an attempt fails with a timeout, a provider error or any other
\* unexpected exception, the usage samples, the lifetime totals, the
\* cooldown expiries and the trigger counts of every model are unchanged,
\* and the request goes on to the next attempt of its sequence if there is
\* one.
C18_FailureRecordsNothing ==
    [][ \A r \in Requests :
          FailsWithoutRateLimit(r) =>
              /\ usage' = usage
              /\ total_usage' = total_usage
              /\ cooldowns' = cooldowns
              /\ cooldown_count' = cooldown_count
              /\ req[r].idx < Len(req[r].all_attempts) =>
                    /\ req'[r].pc = "awaiting"
                    /\ req'[r].idx = req[r].idx + 1
                    /\ req'[r].all_attempts = req[r].all_attempts
      ]_vars

(***************************************************************************)
(* C19                                                                     *)
(***************************************************************************)

\* The models of the first n attempts, in attempt order
AttemptedModels(q, n) == [k \in 1..n |-> q.all_attempts[k][2]]

\* C19: a successful attempt records its tokens under the model key and
\* under the provider key, the threshold check that follows sees them
\* (cooldown_triggered says whether the last 3600 seconds, these tokens
\* included, reach the threshold), tried_models lists the attempted models
\* in attempt order and ends with model_used, and usage is recorded for a
\* model only when a request succeeds with it as model_used.
C19_RecordThenCheck ==
    [][ /\ \A r \in Requests :
              Succeeds(r) =>
                  LET resp == req'[r].response
                      m == resp.model_used
                      pk == provider_key(resp.provider)
                  IN  /\ m = AttemptModel(r)
                      /\ resp.provider = MODEL_CONFIG[m].provider
                      /\ get_total_usage(total_usage', m) =
                             get_total_usage(total_usage, m) + resp.tokens_used
                      /\ get_total_usage(total_usage', pk) =
                             get_total_usage(total_usage, pk) + resp.tokens_used
                      /\ resp.cooldown_triggered <=>
                             RecordedOf(log', m, 3600, now') >= TOKEN_COOLDOWN_THRESHOLD
                      /\ resp.tried_models = AttemptedModels(req[r], req[r].idx)
                      /\ resp.tried_models[Len(resp.tried_models)] = m
        /\ \A k \in DOMAIN total_usage' :
              get_total_usage(total_usage', k) > get_total_usage(total_usage, k) =>
                  \E r \in Requests :
                      /\ Succeeds(r)
                      /\ k \in {req'[r].response.model_used,
                                provider_key(req'[r].response.provider)}
      ]_vars

(***************************************************************************)
(* C20                                                                     *)
(***************************************************************************)

\* The sequence the router gives for an intent and a preference in this
\* state: the primary model, then its fallback chain.
RouterSequence(intent, preference) ==
    LET sel == select_model(cooldowns, intent, preference, <<>>, now)
    IN  IF sel.ret = <<>> THEN <<>>
        ELSE <<sel.ret>> \o get_fallback_chain(sel.cooldowns, intent, sel.ret[2], 3, now).ret

\* The attempt request r awaits fails.
AttemptFails(r) == \E e \in ErrorKinds : GenerateFails(r, e)

\* C20: the attempt sequence of a request is what the router gave when the
\* request was routed and never changes afterwards; after a failed attempt
\* the request attempts the model at the next position of that sequence,
\* whether or not that model has been put on cooldown in the meantime.
C20_SequenceFixed ==
    [][ \A r \in Requests :
          /\ Routed(r) =>
                /\ req'[r].all_attempts =
                       RouterSequence(req'[r].intent, req'[r].preference)
                /\ req'[r].idx = 1
          /\ (req[r].pc = "awaiting" /\ req'[r].pc = "awaiting") =>
                /\ req'[r].all_attempts = req[r].all_attempts
                /\ req'[r].idx # req[r].idx =>
                      /\ req'[r].idx = req[r].idx + 1
                      /\ req'[r].tried_models =
                             Append(req[r].tried_models,
                                    req[r].all_attempts[req[r].idx + 1][2])
          /\ (AttemptFails(r) /\ req[r].idx < Len(req[r].all_attempts)) =>
                /\ req'[r].pc = "awaiting"
                /\ req'[r].idx = req[r].idx + 1
      ]_vars

\* A request is attempting, at its second position, a model that the other
\* request put on cooldown by succeeding on it after this request was
\* routed; the router would no longer give that model.
C20_Witness ==
    \E r, o \in Requests :
        /\ req[r].pc = "awaiting"
        /\ req[r].idx = 2
        /\ OnCooldown(cooldowns, AttemptModel(r), now)
        /\ req[o].pc = "done"
        /\ req[o].response.status_code = 200
        /\ req[o].response.cooldown_triggered
        /\ req[o].response.model_used = AttemptModel(r)
        /\ \A k \in 1..Len(RouterSequence(req[r].intent, req[r].preference)) :
              RouterSequence(req[r].intent, req[r].preference)[k][2] # AttemptModel(r)

(***************************************************************************)
(* C21                                                                     *)
(***************************************************************************)

\* The tiers of the claim, best first
SpeedTiers == <<"very_fast", "fast", "medium", "slow">>

QualityTiers == <<"high", "medium", "low">>

\* The place of a tier in a list of tiers
TierRank(tier, tiers) == CHOOSE k \in 1..Len(tiers) : tiers[k] = tier

\* The key a preference orders model m by; one key for all models where the
\* configured order is kept.
PreferenceKey(preference, m) ==
    IF preference = "speed" THEN TierRank(MODEL_CONFIG[m].speed, SpeedTiers)
    ELSE IF preference = "quality" THEN TierRank(MODEL_CONFIG[m].quality, QualityTiers)
    ELSE 0

\* The place of model m in the configured list of an intent
ConfiguredPlace(intent, m) ==
    LET lst == IF intent \in ConfiguredIntents THEN INTENT_ROUTING[intent]
               ELSE <<"gpt-3.5-turbo">>
    IN  CHOOSE k \in 1..Len(lst) : lst[k] = m

\* C21: for "speed", "quality", "balanced" and an unrecognised preference,
\* select_model returns the available candidate with the least key (speed
\* tier, quality tier, none), and among the available candidates of that
\* key the one that comes first in the intent's configured list.
C21_StablePreferenceOrder ==
    \A i \in Intents, p \in Preferences \ {"cost"}, x \in ExcludedArgs :
        LET r == select_model(cooldowns, i, p, x, now).ret
        IN  r # <<>> =>
              /\ r[2] \in Eligible(i, x)
              /\ \A m \in Eligible(i, x) :
                    \/ PreferenceKey(p, r[2]) < PreferenceKey(p, m)
                    \/ /\ PreferenceKey(p, r[2]) = PreferenceKey(p, m)
                       /\ ConfiguredPlace(i, r[2]) <= ConfiguredPlace(i, m)

\* Later than the first instant and with a model on cooldown, an intent has
\* two available candidates of the same quality tier, "quality" returns the one configured first, and
\* "speed" returns another model than "balanced".
C21_Witness ==
    /\ now > 0
    /\ \E c \in Models : Cooling(c, now)
    /\ \E i \in Intents :
          LET q == select_model(cooldowns, i, "quality", <<>>, now).ret
              sp == select_model(cooldowns, i, "speed", <<>>, now).ret
              b == select_model(cooldowns, i, "balanced", <<>>, now).ret
          IN  /\ q # <<>>
              /\ sp[2] # b[2]
              /\ \E m \in Eligible(i, <<>>) :
                    /\ m # q[2]
                    /\ MODEL_CONFIG[m].quality = MODEL_CONFIG[q[2]].quality
                    /\ ConfiguredPlace(i, q[2]) < ConfiguredPlace(i, m)

(***************************************************************************)
(* C22                                                                     *)
(***************************************************************************)

\* The configured list of an intent
ConfiguredList(intent) ==
    IF intent \in ConfiguredIntents THEN INTENT_ROUTING[intent]
    ELSE <<"gpt-3.5-turbo">>

\* The first n elements of the intent's configured list without the failed
\* model and the cooling models, each with its configured provider
ExpectedChain(intent, failed_model, n) ==
    LET left == SelectSeq(ConfiguredList(intent),
                          LAMBDA m : m # failed_model /\ ~Cooling(m, now))
    IN  [k \in 1..(IF n < Len(left) THEN n ELSE Len(left)) |->
            <<MODEL_CONFIG[left[k]].provider, left[k]>>]

\* C22: get_fallback_chain returns exactly the first max_fallbacks elements
\* of the intent's configured list with the failed model and the cooling
\* models removed, in the configured order, each paired with its configured
\* provider; whatever preference chose the primary model, the chain that
\* follows it is in the configured order.
C22_ChainInConfiguredOrder ==
    /\ \A i \in Intents, f \in FailedModelArgs, n \in MaxFallbacksArgs :
          get_fallback_chain(cooldowns, i, f, n, now).ret = ExpectedChain(i, f, n)
    /\ \A i \in Intents, p \in Preferences :
          LET sel == select_model(cooldowns, i, p, <<>>, now)
          IN  sel.ret # <<>> =>
                get_fallback_chain(sel.cooldowns, i, sel.ret[2], 3, now).ret
                    = ExpectedChain(i, sel.ret[2], 3)

\* With a model on cooldown, the chain behind the primary model of "speed"
\* has two models in the configured order, which is not their order by
\* speed; and a chain is cut by max_fallbacks.
C22_Witness ==
    /\ now > 0
    /\ \E c \in Models : Cooling(c, now)
    /\ \E i \in Intents :
          LET sel == select_model(cooldowns, i, "speed", <<>>, now)
              chain == get_fallback_chain(sel.cooldowns, i, sel.ret[2], 3, now).ret
          IN  /\ sel.ret # <<>>
              /\ Len(chain) = 2
              /\ PreferenceKey("speed", chain[1][2]) > PreferenceKey("speed", chain[2][2])
              /\ Len(get_fallback_chain(cooldowns, i, sel.ret[2], 1, now).ret) = 1

(***************************************************************************)
(* C23                                                                     *)
(***************************************************************************)

\* C23: get_usage_in_window(k, W) leaves of k's stored samples exactly those
\* with timestamp >= now - 2*W, in their order, changes the samples of no
\* other key and no lifetime total, creates no entry, and returns 0 for a
\* key without samples.
C23_PruningFrame ==
    [][ \A k \in TrackedKeys, w \in WindowArgs :
          GetUsageInWindow(k, w) =>
              /\ DOMAIN usage' = DOMAIN usage
              /\ \A o \in DOMAIN usage \ {k} : usage'[o] = usage[o]
              /\ total_usage' = total_usage
              /\ k \in DOMAIN usage =>
                    usage'[k] = SelectSeq(usage[k],
                                          LAMBDA smp : ~(smp[1] < now - Ticks(2 * w)))
              /\ DictGet(usage, k, <<>>) = <<>> =>
                    get_usage_in_window(usage, k, w, now).ret = 0
      ]_vars

\* Of the two samples recorded for a key the older has been removed by a
\* window query and the newer is kept; the provider key still has what was
\* recorded under it, and a key never recorded has no entry.
C23_Witness ==
    \E k \in TrackedKeys :
        /\ k \in DOMAIN usage
        /\ Len(DictGet(log, k, <<>>)) = 2
        /\ usage[k] = <<log[k][2]>>
        /\ \E o \in DOMAIN usage \ {k} : usage[o] = log[o] /\ usage[o] # <<>>
        /\ "test-model" \notin DOMAIN usage

(***************************************************************************)
(* C24                                                                     *)
(***************************************************************************)

\* The keys other than these are the same before and after the step.
OnlyKeysChange(keys) ==
    /\ \A k \in (DOMAIN usage \cup DOMAIN usage') \ keys :
          k \in DOMAIN usage /\ k \in DOMAIN usage' /\ usage'[k] = usage[k]
    /\ \A k \in (DOMAIN total_usage \cup DOMAIN total_usage') \ keys :
          /\ k \in DOMAIN total_usage /\ k \in DOMAIN total_usage'
          /\ total_usage'[k] = total_usage[k]

\* Key k gets the sample <<now, n>> appended and n added to its total.
KeyRecords(k, n) ==
    /\ k \in DOMAIN usage'
    /\ usage'[k] = Append(DictGet(usage, k, <<>>), <<now, n>>)
    /\ get_total_usage(total_usage', k) = get_total_usage(total_usage, k) + n

\* C24: record_usage(m, n, provider=p) with a non-empty p appends one sample
\* with the same timestamp and token count to key m and to key "provider:p"
\* and adds n to both totals; with no provider only key m changes; and the
\* total of "provider:p" is always the sum of the tokens recorded with
\* provider p since that key was last reset.
C24_ProviderAggregate ==
    [][ /\ \A m \in RecordedModels, n \in TokenCounts, p \in ProviderArgs :
              RecordUsage(m, n, p) =>
                  IF p = <<>>
                  THEN KeyRecords(m, n) /\ OnlyKeysChange({m})
                  ELSE /\ KeyRecords(m, n)
                       /\ KeyRecords(provider_key(p[1]), n)
                       /\ OnlyKeysChange({m, provider_key(p[1])})
        /\ \A p \in ProviderArgs \ {<<>>} :
              get_total_usage(total_usage', provider_key(p[1]))
                  = SumTokens(DictGet(log', provider_key(p[1]), <<>>))
      ]_vars

\* After a record without provider and a later one with a provider: the
\* provider key holds the second sample only, with the timestamp and the
\* tokens the model key got, and its total is less than the model's.
C24_Witness ==
    \E m \in RecordedModels, p \in ProviderArgs \ {<<>>} :
        LET pk == provider_key(p[1])
        IN  /\ m \in DOMAIN usage /\ pk \in DOMAIN usage
            /\ Len(usage[m]) = 2
            /\ usage[pk] = <<usage[m][2]>>
            /\ usage[m][2][1] > usage[m][1][1]
            /\ total_usage[pk] = usage[pk][1][2]
            /\ total_usage[m] = usage[m][1][2] + usage[m][2][2]

(***************************************************************************)
(* C25                                                                     *)
(***************************************************************************)

\* Thread t is inside the tracker's section: it has yet to read or to store.
InTrackerSection(t) ==
    /\ threads[t].op # "idle"
    /\ step_of(threads[t]) \in {<<"read", "tracker">>, <<"release", "tracker">>}

\* C25: in every interleaving of record_usage, get_usage_in_window,
\* get_total_usage and reset_usage calls of several threads each call takes
\* effect atomically: a thread inside the tracker's section holds the
\* tracker's lock, so no two threads are inside at once, and what it has
\* read is still what the fields hold when it stores; no sample and no
\* increment is lost: for every key the stored samples are the samples
\* recorded since the last reset (nothing is old enough to be pruned) and
\* the total is the sum of their tokens.
C25_TrackerCallsAtomic ==
    /\ \A t \in Threads :
          InTrackerSection(t) =>
              /\ locks["tracker"] = <<t>>
              /\ step_of(threads[t])[1] = "release" /\ threads[t].op \in ReadingOps =>
                    threads[t].read =
                        read_of(IF threads[t].op = "record_usage"
                                THEN total_usage ELSE usage,
                                read_keys(threads[t]))
    /\ \A t, u \in Threads : InTrackerSection(t) /\ InTrackerSection(u) => t = u
    /\ DOMAIN usage = DOMAIN log
    /\ DOMAIN total_usage = DOMAIN log
    /\ \A k \in DOMAIN log :
          /\ usage[k] = log[k]
          /\ get_total_usage(total_usage, k) = SumTokens(log[k])

\* Two records have taken effect and a third is under way: its thread has
\* read the total inside the section while the other thread, in
\* record_usage too, waits for the tracker's lock.
C25_Witness ==
    \E t, u \in Threads, m \in RecordedModels :
        /\ t # u
        /\ threads[t].op = "record_usage"
        /\ threads[t].model = m
        /\ step_of(threads[t]) = <<"release", "tracker">>
        /\ threads[u].op = "record_usage"
        /\ threads[u].model = m
        /\ WaitsFor(u, "tracker")
        /\ m \in DOMAIN log
        /\ Len(usage[m]) >= 1
        /\ total_usage[m] = SumTokens(usage[m])

(***************************************************************************)
(* C26                                                                     *)
(***************************************************************************)

\* Every read says that model m has no cooldown.
ReadsAbsent(cd, m, t) ==
    /\ ~is_on_cooldown(cd, m, t).ret
    /\ get_remaining_cooldown(cd, m, t) = 0
    /\ m \notin DOMAIN get_all_cooldowns(cd, t)

\* C26: at any time at or after the expiry of m's entry, evicted or not,
\* is_on_cooldown(m) is false, get_remaining_cooldown(m) is 0 and
\* get_all_cooldowns() does not contain m; is_on_cooldown(m) removes the
\* expired entry; and an entry leaves the map only through a lookup of an
\* expired entry or through clear_cooldown.
C26_ExpiredIsAbsent ==
    [][ \A m \in TrackedModels :
          /\ (m \notin DOMAIN cooldowns' \/ now' >= cooldowns'[m]) =>
                /\ ReadsAbsent(cooldowns', m, now')
                /\ m \notin DOMAIN is_on_cooldown(cooldowns', m, now').cooldowns
          /\ (m \in DOMAIN cooldowns /\ m \notin DOMAIN cooldowns') =>
                \/ IsOnCooldown(m) /\ now >= cooldowns[m]
                \/ ClearCooldown(m)
      ]_vars

\* One model's entry has expired and is still in the map, while another's
\* has expired and is gone.
C26_Witness ==
    \E m, o \in TrackedModels :
        /\ m \in DOMAIN cooldowns
        /\ now >= cooldowns[m]
        /\ o \in DOMAIN triggered
        /\ o \notin DOMAIN cooldowns
        /\ now >= triggered[o].at + Ticks(trigger_duration(triggered[o].d))

(***************************************************************************)
(* C27                                                                     *)
(***************************************************************************)

\* The models that are on cooldown at time t according to map cd
CoolingSet(cd, t) == {m \in Models : m \in DOMAIN cd /\ t < cd[m]}

\* A cooldown map that has nothing but a set of cooling models in common
\* with the manager's: each ends one tick after t.
CooldownsOf(cooling, t) == [m \in cooling |-> t + 1]

\* C27: the result of select_model and of get_fallback_chain is determined
\* by the arguments and the set of models on cooldown: it is the result
\* obtained from any other cooldown map with the same cooling set, whatever
\* the expiries, the expired entries still in the map and the routing calls
\* made before; and a routing call leaves the cooling set as it was.
C27_RoutingDeterministic ==
    LET same == CooldownsOf(CoolingSet(cooldowns, now), now)
    IN  /\ \A i \in Intents, p \in Preferences, x \in ExcludedArgs :
              LET r == select_model(cooldowns, i, p, x, now)
              IN  /\ r.ret = select_model(same, i, p, x, now).ret
                  /\ CoolingSet(r.cooldowns, now) = CoolingSet(cooldowns, now)
        /\ \A i \in Intents, f \in FailedModelArgs, n \in MaxFallbacksArgs :
              LET c == get_fallback_chain(cooldowns, i, f, n, now)
              IN  /\ c.ret = get_fallback_chain(same, i, f, n, now).ret
                  /\ CoolingSet(c.cooldowns, now) = CoolingSet(cooldowns, now)

\* The first candidate of an intent has a long cooldown left, another entry
\* of the map has expired without being evicted, and select_model returns a
\* later candidate of the intent.
C27_Witness ==
    \E m, o \in Models, i \in ConfiguredIntents :
        /\ m \in DOMAIN cooldowns /\ cooldowns[m] > now + Ticks(5)
        /\ o \in DOMAIN cooldowns /\ now >= cooldowns[o]
        /\ INTENT_ROUTING[i][1] = m
        /\ select_model(cooldowns, i, "balanced", <<>>, now).ret # <<>>

(***************************************************************************)
(* C28                                                                     *)
(***************************************************************************)

\* C28: trigger_cooldown uses the default duration only when no duration is
\* supplied; for every supplied d >= 0, d = 0 included, the expiry is
\* now + d, so that after trigger_cooldown(m, 0) m is not on cooldown; the
\* same holds of set_cooldown, whose default is 60 seconds.
C28_SuppliedDurationUsed ==
    [][ \A m \in TrackedModels, d \in DurationArgs :
          TriggerCooldown(m, d) =>
              /\ d = <<>> =>
                    cooldowns'[m] = now + Ticks(COOLDOWN_DURATION_SECONDS)
              /\ d # <<>> =>
                    /\ cooldowns'[m] = now + Ticks(d[1])
                    /\ d[1] = 0 => ~is_on_cooldown(cooldowns', m, now').ret
                    /\ set_cooldown(cooldowns, cooldown_count, m, d, now).cooldowns[m]
                           = now + Ticks(d[1])
      ]_vars

(***************************************************************************)
(* C29                                                                     *)
(***************************************************************************)

\* C29: while a model is on cooldown no step of a request moves its expiry
\* to an earlier time; a 600-second cooldown forced by a rate limit is not
\* shortened by a later threshold trigger on the same model.
C29_ExpiryNeverEarlier ==
    [][ \A m \in Models :
          (OnCooldown(cooldowns, m, now) /\ m \in DOMAIN cooldowns') =>
              cooldowns'[m] >= cooldowns[m]
      ]_vars

(***************************************************************************)
(* C30                                                                     *)
(***************************************************************************)

\* C30: at every instant, for every model key m, is_on_cooldown(m) is true
\* if and only if get_remaining_cooldown(m) > 0, if and only if m is a key
\* of get_all_cooldowns().
C30_ReadsAgree ==
    \A m \in TrackedModels :
        /\ is_on_cooldown(cooldowns, m, now).ret
               <=> get_remaining_cooldown(cooldowns, m, now) > 0
        /\ is_on_cooldown(cooldowns, m, now).ret
               <=> m \in DOMAIN get_all_cooldowns(cooldowns, now)

(***************************************************************************)
(* C31                                                                     *)
(***************************************************************************)

\* No element occurs twice in the list.
NoDuplicates(lst) ==
    \A a, b \in 1..Len(lst) : a # b => lst[a] # lst[b]

\* The handler's locals when a request with this intent and preference has
\* been routed: select_model sees the manager's cooldowns, get_fallback_chain
\* those of the map chain_cd, which may differ from them.
RoutedRequest(intent, preference, chain_cd) ==
    LET sel == select_model(cooldowns, intent, preference, <<>>, now)
        chain == get_fallback_chain(chain_cd, intent, sel.ret[2], 3, now).ret
    IN  next_attempt([IdleRequest EXCEPT !.intent = intent,
                                         !.preference = preference,
                                         !.model_name = sel.ret[2],
                                         !.all_attempts = <<sel.ret>> \o chain],
                     now)

RECURSIVE AfterFailures(_, _)
\* The handler's locals after the next k attempts have failed
AfterFailures(q, k) ==
    IF k = 0 THEN q ELSE AfterFailures(after_error(q, "TimeoutError", now), k - 1)

\* The response when the attempt the request is at succeeds
SuccessOf(q) ==
    success_response(q, q.all_attempts[q.idx][1], q.all_attempts[q.idx][2], 100, FALSE)

\* C31: for every intent, every preference and every pair of cooldown
\* states seen by select_model and by get_fallback_chain, the attempt
\* sequence of a request has no model twice, tried_models never has a
\* duplicate, and a successful response has fallback_used = true exactly
\* when tried_models has more than one entry.
C31_NoRepeatedAttempt ==
    \A i \in Intents, p \in Preferences : \A cooling \in SUBSET CandidatesOf(i) :
        select_model(cooldowns, i, p, <<>>, now).ret # <<>> =>
            LET q == RoutedRequest(i, p, CooldownsOf(cooling, now))
            IN  /\ NoDuplicates(AttemptedModels(q, Len(q.all_attempts)))
                /\ \A k \in 0..(Len(q.all_attempts) - 1) :
                      LET resp == SuccessOf(AfterFailures(q, k))
                      IN  /\ NoDuplicates(resp.tried_models)
                          /\ Len(resp.tried_models) = k + 1
                          /\ resp.fallback_used <=> Len(resp.tried_models) > 1

\* A model is on cooldown when select_model is called and no longer when
\* get_fallback_chain is: it is not the primary model, it is in the chain,
\* and the request that succeeds on it has two entries in tried_models.
C31_Witness ==
    /\ now > 0
    /\ \E i \in ConfiguredIntents, m \in Models :
          /\ Cooling(m, now)
          /\ INTENT_ROUTING[i][1] = m
          /\ select_model(cooldowns, i, "balanced", <<>>, now).ret # <<>>
          /\ LET q == RoutedRequest(i, "balanced", EmptyDict)
                 resp == SuccessOf(AfterFailures(q, 1))
             IN  /\ Len(q.all_attempts) = 3
                 /\ q.all_attempts[2][2] = m
                 /\ resp.model_used = m
                 /\ resp.fallback_used
                 /\ resp.tried_models = <<q.model_name, m>>
====
